---- MODULE Spec2Model ----
(***************************************************************************)
(* Model of strava/stream_jsonl_processor.py: the stream-compaction        *)
(* pipeline (normalisation, resampling, pace, quantiles, record assembly), *)
(* the JSONL batch files and the heart-rate rewriting utility.             *)
(*                                                                         *)
(* Representation.                                                         *)
(*  - A Python str is a sequence of one-character strings.                 *)
(*  - A stream sample is None (<<>>) or Some(v) (<<v>>): number | null.     *)
(*  - A JSON value is tagged: <<"null">>, <<"int", n>>, <<"flt", micro>>    *)
(*    (a float in units of 10^-6), <<"str", chars>>, <<"obj", f>> with f a  *)
(*    function from keys to JSON values.                                   *)
(*  - Sample indices are 0-based as in the source; Seq access adds 1.      *)
(***************************************************************************)
EXTENDS Integers, Sequences, FiniteSets, TLC

VARIABLES
    pc,         \* position of the modelled call: "call", "done", ...
    op,         \* which entry point is called
    activity,   \* activity_data: source key -> JSON value
    streams,    \* streams_data: None or Some(list of RawStream)
    interval,   \* interval_seconds
    flags,      \* <<filter_moving, include_pace, include_velocity>>
    result,     \* what the call returned
    err,        \* the exception the call raised, "" when none
    fs,         \* file system: path -> file content (sequence of characters)
    batch,      \* jsonl_objects handed to save_jsonl_file
    hr,         \* <<min_hr, max_hr>> handed to modify_heartrate_to_abnormal
    paths,      \* <<jsonl_filepath, output_filepath>>
    opened      \* paths opened for reading / writing by the current call

vars == <<pc, op, activity, streams, interval, flags, result, err,
          fs, batch, hr, paths, opened>>

----------------------------------------------------------------------------
(* Generic helpers *)

None == <<>>
Some(v) == <<v>>

Range(s) == {s[i] : i \in 1..Len(s)}

RECURSIVE SeqsUpTo(_, _)
SeqsUpTo(S, n) ==
    IF n = 0 THEN {<<>>}
    ELSE LET shorter == SeqsUpTo(S, n - 1)
         IN  shorter \cup {Append(s, x) : s \in {t \in shorter : Len(t) = n - 1}, x \in S}

RECURSIVE Concat(_)
Concat(ss) == IF ss = <<>> THEN <<>> ELSE Head(ss) \o Concat(Tail(ss))

\* sep.join(parts)
RECURSIVE Join(_, _)
Join(parts, sep) ==
    IF parts = <<>> THEN <<>>
    ELSE IF Len(parts) = 1 THEN parts[1]
    ELSE parts[1] \o sep \o Join(Tail(parts), sep)

\* s.split(sep) for a one-character separator: always at least one piece
SepPositions(s, sep) == SelectSeq([i \in 1..Len(s) |-> i], LAMBDA i : s[i] = sep)

Split(s, sep) ==
    LET cuts == <<0>> \o SepPositions(s, sep) \o <<Len(s) + 1>>
    IN  [k \in 1..(Len(cuts) - 1) |-> SubSeq(s, cuts[k] + 1, cuts[k + 1] - 1)]

Whitespace == {" ", "\t", "\n", "\r"}

RECURSIVE LStrip(_)
LStrip(s) == IF s # <<>> /\ Head(s) \in Whitespace THEN LStrip(Tail(s)) ELSE s

RECURSIVE RStrip(_)
RStrip(s) ==
    IF s # <<>> /\ s[Len(s)] \in Whitespace THEN RStrip(SubSeq(s, 1, Len(s) - 1)) ELSE s

\* str.strip()
Strip(s) == RStrip(LStrip(s))

LowerChar(c) ==
    CASE c = "R" -> "r" [] c = "U" -> "u" [] c = "N" -> "n" [] c = "I" -> "i"
      [] c = "G" -> "g" [] c = "E" -> "e" [] c = "S" -> "s" [] c = "T" -> "t"
      [] c = "A" -> "a" [] c = "P" -> "p" [] c = "L" -> "l" [] c = "J" -> "j"
      [] c = "D" -> "d"
      [] OTHER -> c

\* str.lower()
Lower(s) == [i \in 1..Len(s) |-> LowerChar(s[i])]

\* str.startswith(prefix)
StartsWith(s, prefix) ==
    /\ Len(s) >= Len(prefix)
    /\ SubSeq(s, 1, Len(prefix)) = prefix

Digit(d) == CASE d = 0 -> "0" [] d = 1 -> "1" [] d = 2 -> "2" [] d = 3 -> "3"
              [] d = 4 -> "4" [] d = 5 -> "5" [] d = 6 -> "6" [] d = 7 -> "7"
              [] d = 8 -> "8" [] d = 9 -> "9"

DigitChars == {"0", "1", "2", "3", "4", "5", "6", "7", "8", "9"}

DigitVal(c) == CASE c = "0" -> 0 [] c = "1" -> 1 [] c = "2" -> 2 [] c = "3" -> 3
                 [] c = "4" -> 4 [] c = "5" -> 5 [] c = "6" -> 6 [] c = "7" -> 7
                 [] c = "8" -> 8 [] c = "9" -> 9

RECURSIVE NatToStr(_)
NatToStr(n) == IF n < 10 THEN <<Digit(n)>> ELSE Append(NatToStr(n \div 10), Digit(n % 10))

\* str(n) for an int
IntToStr(n) == IF n < 0 THEN <<"-">> \o NatToStr(-n) ELSE NatToStr(n)

RECURSIVE StrToNat(_)
StrToNat(s) ==
    IF Len(s) = 1 THEN DigitVal(s[1])
    ELSE 10 * StrToNat(SubSeq(s, 1, Len(s) - 1)) + DigitVal(s[Len(s)])

IsNatStr(s) == s # <<>> /\ \A i \in 1..Len(s) : s[i] \in DigitChars

IsIntStr(s) == IsNatStr(s) \/ (s # <<>> /\ Head(s) = "-" /\ IsNatStr(Tail(s)))

\* int(s) for a decimal literal
StrToInt(s) == IF Head(s) = "-" THEN -StrToNat(Tail(s)) ELSE StrToNat(s)

Abs(x) == IF x < 0 THEN -x ELSE x

\* insertion into an ascending sequence, and sorting
RECURSIVE InsertSorted(_, _)
InsertSorted(x, s) ==
    IF s = <<>> THEN <<x>>
    ELSE IF x <= Head(s) THEN <<x>> \o s
    ELSE <<Head(s)>> \o InsertSorted(x, Tail(s))

RECURSIVE Sorted(_)
Sorted(s) == IF s = <<>> THEN <<>> ELSE InsertSorted(Head(s), Sorted(Tail(s)))

RECURSIVE SumSeq(_)
SumSeq(s) == IF s = <<>> THEN 0 ELSE Head(s) + SumSeq(Tail(s))

RECURSIVE MaxSeq(_)
MaxSeq(s) ==
    IF Len(s) = 1 THEN s[1]
    ELSE LET m == MaxSeq(Tail(s)) IN IF Head(s) >= m THEN Head(s) ELSE m

RECURSIVE MinSeq(_)
MinSeq(s) ==
    IF Len(s) = 1 THEN s[1]
    ELSE LET m == MinSeq(Tail(s)) IN IF Head(s) <= m THEN Head(s) ELSE m

\* restriction of a function (dict) to some keys; dict.pop(key, None)
Restrict(f, keys) == [k \in keys |-> f[k]]
Pop(f, key) == Restrict(f, DOMAIN f \ {key})
EmptyDict == [k \in {} |-> None]
\* dict with one more / overwritten entry
Put(f, key, v) == [k \in DOMAIN f \cup {key} |-> IF k = key THEN v ELSE f[k]]

----------------------------------------------------------------------------
(* JSON values *)

JNull == <<"null">>
JInt(n) == <<"int", n>>
JFlt(micro) == <<"flt", micro>>
JStr(s) == <<"str", s>>
JObj(f) == <<"obj", f>>
IsNull(v) == v[1] = "null"
IsObj(v) == v[1] = "obj"
IsStr(v) == v[1] = "str"
Val(v) == v[2]

Micro == 1000000

----------------------------------------------------------------------------
(* Constants of the module *)

QuantileLevels == <<5, 25, 50, 75, 95>>
CadenceMultiplier == 2

LevelKey(level) ==
    CASE level = 5 -> "5" [] level = 25 -> "25" [] level = 50 -> "50"
      [] level = 75 -> "75" [] level = 95 -> "95"

LevelKeys == {LevelKey(QuantileLevels[i]) : i \in 1..Len(QuantileLevels)}
LevelOf(key) == CHOOSE q \in Range(QuantileLevels) : LevelKey(q) = key

----------------------------------------------------------------------------
(* Name classification and numeric utilities *)

StreamKeyForQuantiles(stream_type) ==
    CASE stream_type = "heartrate" -> "hr_bpm"
      [] stream_type = "altitude" -> "altitude_m"
      [] stream_type = "distance" -> "distance_m"
      [] stream_type = "velocity_smooth" -> "velocity_smooth_ms"
      [] stream_type = "cadence" -> "cadence_spm"
      [] stream_type = "time" -> "time_s"
      [] OTHER -> stream_type

\* activity_name is a JSON value: null or a string
IsRunningActivity(activity_name) ==
    IF IsNull(activity_name) \/ Val(activity_name) = <<>> THEN FALSE
    ELSE StartsWith(Lower(Strip(Val(activity_name))), <<"r", "u", "n", "n", "i", "n", "g">>)

IsRestActivity(activity_name) ==
    IF IsNull(activity_name) \/ Val(activity_name) = <<>> THEN FALSE
    ELSE StartsWith(Lower(Strip(Val(activity_name))), <<"r", "e", "s", "t">>)

\* a sample is None, Some(number), (moving) Some(boolean), or a string JStr(s),
\* which is not a number
IsNumericValue(value) == value # None /\ Len(value) = 1

ExtractNumericValues(data) ==
    LET kept == SelectSeq(data, IsNumericValue)
    IN  [i \in 1..Len(kept) |-> kept[i][1]]

\* np.percentile(values, level), linear interpolation, rounded to 6 places, in
\* micro-units; values are integers, so the result is exact
PercentileMicro(sorted, level) ==
    LET h  == (Len(sorted) - 1) * level
        lo == h \div 100
        fr == h % 100
        a  == sorted[lo + 1]
        b  == IF fr = 0 THEN a ELSE sorted[lo + 2]
    IN  (a * 100 + fr * (b - a)) * (Micro \div 100)

QuantileDict(values) ==
    [k \in LevelKeys |-> PercentileMicro(Sorted(values), LevelOf(k))]

----------------------------------------------------------------------------
(* Stream normalisation *)

ConvertStreamsToDict(streams_data) ==
    LET kept  == {i \in 1..Len(streams_data) :
                    streams_data[i].type # "" /\ streams_data[i].data # <<>>}
        types == {streams_data[i].type : i \in kept}
        last(t) == CHOOSE i \in kept :
                      /\ streams_data[i].type = t
                      /\ \A j \in kept : streams_data[j].type = t => j <= i
    IN  [t \in types |-> streams_data[last(t)].data]

Truthy(value) == value # None /\ value[1] = TRUE

RECURSIVE ValidIndicesFrom(_, _)
ValidIndicesFrom(moving_data, i) ==
    IF i > Len(moving_data) THEN <<>>
    ELSE (IF Truthy(moving_data[i]) THEN <<i - 1>> ELSE <<>>)
         \o ValidIndicesFrom(moving_data, i + 1)

FilterData(data, valid_indices) ==
    LET ok == SelectSeq(valid_indices, LAMBDA i : i < Len(data))
    IN  [k \in 1..Len(ok) |-> data[ok[k] + 1]]

\* mutant: without a moving stream nothing is kept
FilterByMoving_EmptyWithoutMask(streams_dict) ==
    IF "moving" \notin DOMAIN streams_dict THEN EmptyDict
    ELSE LET moving_data   == streams_dict["moving"]
             valid_indices == ValidIndicesFrom(moving_data, 1)
         IN  IF ~(\E i \in 1..Len(moving_data) : moving_data[i] # None)
             THEN streams_dict
             ELSE IF valid_indices = <<>> THEN EmptyDict
             ELSE [t \in DOMAIN streams_dict |-> FilterData(streams_dict[t], valid_indices)]

\* mutant: the streams are subset even when no sample is a moving one
FilterByMoving_NoCollapse(streams_dict) ==
    IF "moving" \notin DOMAIN streams_dict THEN streams_dict
    ELSE LET moving_data   == streams_dict["moving"]
             valid_indices == ValidIndicesFrom(moving_data, 1)
         IN  IF ~(\E i \in 1..Len(moving_data) : moving_data[i] # None)
             THEN streams_dict
             ELSE [t \in DOMAIN streams_dict |-> FilterData(streams_dict[t], valid_indices)]

FilterByMoving(streams_dict) ==
    IF "moving" \notin DOMAIN streams_dict THEN streams_dict
    ELSE LET moving_data   == streams_dict["moving"]
             valid_indices == ValidIndicesFrom(moving_data, 1)
         IN  IF ~(\E i \in 1..Len(moving_data) : moving_data[i] # None)
             THEN streams_dict
             ELSE IF valid_indices = <<>> THEN EmptyDict
             ELSE [t \in DOMAIN streams_dict |-> FilterData(streams_dict[t], valid_indices)]

\* mutant: the entries that are not numbers are left out
DoubleCadenceValues_DropsMissing(streams_dict) ==
    IF "cadence" \in DOMAIN streams_dict
    THEN [streams_dict EXCEPT !["cadence"] =
            LET kept == SelectSeq(@, IsNumericValue)
            IN  [i \in 1..Len(kept) |-> Some(kept[i][1] * CadenceMultiplier)]]
    ELSE streams_dict

DoubleCadenceValues(streams_dict) ==
    IF "cadence" \in DOMAIN streams_dict
    THEN [streams_dict EXCEPT !["cadence"] =
            [i \in 1..Len(@) |-> IF IsNumericValue(@[i])
                                 THEN Some(@[i][1] * CadenceMultiplier)
                                 ELSE @[i]]]
    ELSE streams_dict

----------------------------------------------------------------------------
(* Quantiles *)

\* mutant: the time stream gets no quantiles
CalculateQuantiles_SensorsOnly(streams_dict, include_velocity) ==
    LET used == {t \in DOMAIN streams_dict \ {"time"} :
                    /\ streams_dict[t] # <<>>
                    /\ ExtractNumericValues(streams_dict[t]) # <<>>
                    /\ ~(StreamKeyForQuantiles(t) = "velocity_smooth_ms" /\ ~include_velocity)}
        src(k) == CHOOSE t \in used : StreamKeyForQuantiles(t) = k
    IN  [k \in {StreamKeyForQuantiles(t) : t \in used} |->
            QuantileDict(ExtractNumericValues(streams_dict[src(k)]))]

CalculateQuantiles(streams_dict, include_velocity) ==
    LET used == {t \in DOMAIN streams_dict :
                    /\ streams_dict[t] # <<>>
                    /\ ExtractNumericValues(streams_dict[t]) # <<>>
                    /\ ~(StreamKeyForQuantiles(t) = "velocity_smooth_ms" /\ ~include_velocity)}
        src(k) == CHOOSE t \in used : StreamKeyForQuantiles(t) = k
    IN  [k \in {StreamKeyForQuantiles(t) : t \in used} |->
            QuantileDict(ExtractNumericValues(streams_dict[src(k)]))]

\* a pace is the rational <<numerator, denominator>> = (dt / dd) * 1000
RatLe(p, q) == p[1] * q[2] <= q[1] * p[2]

RECURSIVE InsertSortedRat(_, _)
InsertSortedRat(x, s) ==
    IF s = <<>> THEN <<x>>
    ELSE IF RatLe(x, Head(s)) THEN <<x>> \o s
    ELSE <<Head(s)>> \o InsertSortedRat(x, Tail(s))

RECURSIVE SortedRat(_)
SortedRat(s) == IF s = <<>> THEN <<>> ELSE InsertSortedRat(Head(s), SortedRat(Tail(s)))

\* round(num / den, 6) in micro-units (round half to even), by long division
RoundMicro(num, den) ==
    LET ip == num \div den
        r0 == num % den
        d1 == (r0 * 1000) \div den
        r1 == (r0 * 1000) % den
        d2 == (r1 * 1000) \div den
        r2 == (r1 * 1000) % den
        fl == ip * Micro + d1 * 1000 + d2
    IN  IF 2 * r2 > den THEN fl + 1
        ELSE IF 2 * r2 = den /\ fl % 2 = 1 THEN fl + 1
        ELSE fl

PercentileRatMicro(sorted, level) ==
    LET h  == (Len(sorted) - 1) * level
        lo == h \div 100
        fr == h % 100
        a  == sorted[lo + 1]
        b  == IF fr = 0 THEN a ELSE sorted[lo + 2]
    IN  IF fr = 0 THEN RoundMicro(a[1], a[2])
        ELSE RoundMicro(a[1] * b[2] * (100 - fr) + b[1] * a[2] * fr, 100 * a[2] * b[2])

RECURSIVE RawPaceValues(_, _, _)
RawPaceValues(time_data, distance_data, i) ==
    IF i >= Len(time_data) THEN <<>>
    ELSE LET dt == time_data[i + 1] - time_data[i]
             skip == \/ dt <= 0
                     \/ i >= Len(distance_data)
                     \/ distance_data[i + 1] = None
                     \/ distance_data[i] = None
                     \/ distance_data[i + 1][1] - distance_data[i][1] <= 0
         IN  (IF skip THEN <<>>
              ELSE <<<<dt * 1000, distance_data[i + 1][1] - distance_data[i][1]>>>>)
             \o RawPaceValues(time_data, distance_data, i + 1)

\* None when there is no usable pair, else Some(level -> micro)
CalculatePaceQuantiles(time_data, distance_data) ==
    LET raw_pace_values == RawPaceValues(time_data, distance_data, 1)
    IN  IF raw_pace_values = <<>> THEN None
        ELSE Some([k \in LevelKeys |->
                     PercentileRatMicro(SortedRat(raw_pace_values), LevelOf(k))])

----------------------------------------------------------------------------
(* Resampling engine *)

\* mutant: among equally close time values the last one is taken
ClosestIdx_LastMinimum(time_data, target_time) ==
    LET d(i) == Abs(time_data[i + 1] - target_time)
    IN  CHOOSE i \in 0..(Len(time_data) - 1) :
            /\ \A j \in 0..(Len(time_data) - 1) : d(i) <= d(j)
            /\ \A j \in (i + 1)..(Len(time_data) - 1) : d(j) > d(i)

\* index of the closest time value; min() keeps the first minimum
ClosestIdx(time_data, target_time) ==
    LET d(i) == Abs(time_data[i + 1] - target_time)
    IN  CHOOSE i \in 0..(Len(time_data) - 1) :
            /\ \A j \in 0..(Len(time_data) - 1) : d(i) <= d(j)
            /\ \A j \in 0..(i - 1) : d(j) > d(i)

\* mutant: the loop stops before max_time is reached (while current < max_time)
TargetTimes_StrictlyBelow(max_time, interval_seconds) ==
    IF max_time <= 0 THEN <<>>
    ELSE [k \in 1..(((max_time - 1) \div interval_seconds) + 1) |-> (k - 1) * interval_seconds]

\* 0, interval, 2 * interval, ... while <= max_time
TargetTimes(max_time, interval_seconds) ==
    IF max_time < 0 THEN <<>>
    ELSE [k \in 1..((max_time \div interval_seconds) + 1) |-> (k - 1) * interval_seconds]

\* mutant: repeated indices are kept
RemoveDuplicates_KeepsAll(sampled_indices, seen) == sampled_indices

RECURSIVE RemoveDuplicates(_, _)
RemoveDuplicates(sampled_indices, seen) ==
    IF sampled_indices = <<>> THEN <<>>
    ELSE IF Head(sampled_indices) \in seen
         THEN RemoveDuplicates(Tail(sampled_indices), seen)
         ELSE <<Head(sampled_indices)>>
              \o RemoveDuplicates(Tail(sampled_indices), seen \cup {Head(sampled_indices)})

FindSamplingIndices(time_data, interval_seconds) ==
    IF time_data = <<>> THEN <<>>
    ELSE LET target_times    == TargetTimes(time_data[Len(time_data)], interval_seconds)
             sampled_indices == [k \in 1..Len(target_times) |->
                                    ClosestIdx(time_data, target_times[k])]
         IN  RemoveDuplicates(sampled_indices, {})

----------------------------------------------------------------------------
(* Derived series *)

\* int(round(num / den)) for den > 0: round half to even
RoundHalfEven(num, den) ==
    LET fl == num \div den
        r  == num % den
    IN  IF 2 * r > den THEN fl + 1
        ELSE IF 2 * r = den /\ fl % 2 = 1 THEN fl + 1
        ELSE fl

\* mutant: a pair without progress in distance or time is written as "0"
PaceBetween_ZeroWhenStalled(sampled_time, sampled_distance, i, j) ==
    IF sampled_distance[i] # None /\ sampled_distance[j] # None
    THEN LET dt == sampled_time[j] - sampled_time[i]
             dd == sampled_distance[j][1] - sampled_distance[i][1]
         IN  IF dd > 0 /\ dt > 0 THEN IntToStr(RoundHalfEven(dt * 1000, dd)) ELSE <<"0">>
    ELSE <<>>

\* the pace entry between sampled positions i and j (1-based, i is the earlier one)
PaceBetween(sampled_time, sampled_distance, i, j) ==
    IF sampled_distance[i] # None /\ sampled_distance[j] # None
    THEN LET dt == sampled_time[j] - sampled_time[i]
             dd == sampled_distance[j][1] - sampled_distance[i][1]
         IN  IF dd > 0 /\ dt > 0 THEN IntToStr(RoundHalfEven(dt * 1000, dd)) ELSE <<>>
    ELSE <<>>

\* mutant: the first position has no previous point and stays empty
CalculatePaceValues_FirstEmpty(sampled_time, sampled_distance) ==
    [i \in 1..Len(sampled_time) |->
        IF i = 1 THEN <<>>
        ELSE PaceBetween(sampled_time, sampled_distance, i - 1, i)]

CalculatePaceValues(sampled_time, sampled_distance) ==
    [i \in 1..Len(sampled_time) |->
        IF i = 1
        THEN IF Len(sampled_time) > 1
             THEN PaceBetween(sampled_time, sampled_distance, 1, 2)
             ELSE <<>>
        ELSE PaceBetween(sampled_time, sampled_distance, i - 1, i)]

\* mutant: an index past the end of the stream reads the last sample
SampleStreamData_ClampsIndex(data, indices) ==
    [k \in 1..Len(indices) |->
        LET i == IF indices[k] < Len(data) THEN indices[k] + 1 ELSE Len(data)
        IN  IF data # <<>> /\ data[i] # None THEN data[i] ELSE None]

SampleStreamData(data, indices) ==
    [k \in 1..Len(indices) |->
        IF indices[k] < Len(data) /\ data[indices[k] + 1] # None
        THEN data[indices[k] + 1]
        ELSE None]

\* the two format functions in use: the default str(int(round(v))), and
\* f"{float(v):.2f}" for the velocity
FormatValue(format_func, v) ==
    IF format_func = "2f" THEN IntToStr(v[1]) \o <<".", "0", "0">>
    ELSE IntToStr(v[1])

\* mutant: missing samples are left out instead of written as empty entries
FormatSampledValues_SkipMissing(values, format_func) ==
    LET present == SelectSeq(values, LAMBDA v : v # None)
    IN  Join([k \in 1..Len(present) |-> FormatValue(format_func, present[k])], <<",">>)

FormatSampledValues(values, format_func) ==
    Join([k \in 1..Len(values) |->
            IF values[k] # None THEN FormatValue(format_func, values[k]) ELSE <<>>], <<",">>)

----------------------------------------------------------------------------
(* _sample_streams_common: returns [err, compact, quantiles] *)

NoSample == [err |-> "", compact |-> EmptyDict, quantiles |-> EmptyDict]

SamplingTag(interval_seconds) ==
    <<"a", "p", "p", "r", "o", "x", "_">> \o IntToStr(interval_seconds) \o <<"s">>

\* the compact record built from the normalised streams and the sample indices
CompactRecord(streams_dict, time_data, unique_indices, interval_seconds, include_pace, include_velocity) ==
    LET sampled_time == [k \in 1..Len(unique_indices) |-> time_data[unique_indices[k] + 1]]
        has(t) == t \in DOMAIN streams_dict
        sampled(t) == SampleStreamData(streams_dict[t], unique_indices)
        keys == {"sampling", "time_s_csv"}
                \cup (IF include_pace /\ has("distance") THEN {"pace_s_per_km_csv"} ELSE {})
                \cup (IF has("heartrate") THEN {"hr_bpm_csv"} ELSE {})
                \cup (IF has("altitude") THEN {"alt_m_csv"} ELSE {})
                \cup (IF include_velocity /\ has("velocity_smooth")
                      THEN {"velocity_smooth_ms_csv"} ELSE {})
                \cup (IF has("cadence") THEN {"cadence_spm_csv"} ELSE {})
    IN  [k \in keys |->
            CASE k = "sampling" -> SamplingTag(interval_seconds)
              [] k = "time_s_csv" ->
                    Join([i \in 1..Len(sampled_time) |-> IntToStr(sampled_time[i])], <<",">>)
              [] k = "pace_s_per_km_csv" ->
                    Join(CalculatePaceValues(sampled_time, sampled("distance")), <<",">>)
              [] k = "hr_bpm_csv" -> FormatSampledValues(sampled("heartrate"), "int")
              [] k = "alt_m_csv" -> FormatSampledValues(sampled("altitude"), "int")
              [] k = "velocity_smooth_ms_csv" ->
                    FormatSampledValues(sampled("velocity_smooth"), "2f")
              [] k = "cadence_spm_csv" -> FormatSampledValues(sampled("cadence"), "int")]

\* mutant: the quantiles are computed from the resampled streams
SampleWithTime_QuantilesOfSamples(streams_dict, interval_seconds, include_pace, include_velocity) ==
    LET raw_time == streams_dict["time"]
    IN  IF \E i \in 1..Len(raw_time) : raw_time[i] = None
        THEN [NoSample EXCEPT !.err = "TypeError"]
        ELSE
        LET time_data == [i \in 1..Len(raw_time) |-> raw_time[i][1] - raw_time[1][1]]
            rebased   == [streams_dict EXCEPT !["time"] =
                             [i \in 1..Len(time_data) |-> Some(time_data[i])]]
            unique_indices == FindSamplingIndices(time_data, interval_seconds)
            sampled   == [t \in DOMAIN rebased |-> SampleStreamData(rebased[t], unique_indices)]
            sampled_time == [k \in 1..Len(unique_indices) |-> time_data[unique_indices[k] + 1]]
            q0 == CalculateQuantiles(sampled, include_velocity)
            pq == IF include_pace /\ "distance" \in DOMAIN rebased
                  THEN CalculatePaceQuantiles(sampled_time, sampled["distance"])
                  ELSE None
            quantiles_result == IF pq # None THEN Put(q0, "pace_s_per_km", pq[1]) ELSE q0
        IN  IF unique_indices = <<>> THEN NoSample
            ELSE [err |-> "",
                  compact |-> CompactRecord(rebased, time_data, unique_indices,
                                            interval_seconds, include_pace,
                                            include_velocity),
                  quantiles |-> quantiles_result]

\* _sample_streams_common from the rebasing of a validated time stream on
SampleWithTime(streams_dict, interval_seconds, include_pace, include_velocity) ==
    LET raw_time == streams_dict["time"]
    IN  IF \E i \in 1..Len(raw_time) : raw_time[i] = None
        THEN [NoSample EXCEPT !.err = "TypeError"]      \* float(None)
        ELSE
        LET time_data == [i \in 1..Len(raw_time) |-> raw_time[i][1] - raw_time[1][1]]
            rebased   == [streams_dict EXCEPT !["time"] =
                             [i \in 1..Len(time_data) |-> Some(time_data[i])]]
            q0 == CalculateQuantiles(rebased, include_velocity)
            pq == IF include_pace /\ "distance" \in DOMAIN rebased
                  THEN CalculatePaceQuantiles(time_data, rebased["distance"])
                  ELSE None
            quantiles_result == IF pq # None THEN Put(q0, "pace_s_per_km", pq[1]) ELSE q0
            unique_indices == FindSamplingIndices(time_data, interval_seconds)
        IN  IF unique_indices = <<>> THEN NoSample
            ELSE [err |-> "",
                  compact |-> CompactRecord(rebased, time_data, unique_indices,
                                            interval_seconds, include_pace,
                                            include_velocity),
                  quantiles |-> quantiles_result]

\* mutant: the quantiles are computed before the time stream is validated
SampleNormalised_QuantilesFirst(filtered, interval_seconds, include_pace, include_velocity) ==
    LET streams_dict == DoubleCadenceValues(Pop(filtered, "moving"))
    IN  IF "time" \notin DOMAIN streams_dict \/ streams_dict["time"] = <<>>
        THEN [NoSample EXCEPT !.quantiles = CalculateQuantiles(streams_dict, include_velocity)]
        ELSE SampleWithTime(streams_dict, interval_seconds, include_pace, include_velocity)

\* the part of _sample_streams_common after the moving filter: drop the mask,
\* double the cadence, validate the time stream
SampleNormalised(filtered, interval_seconds, include_pace, include_velocity) ==
    LET streams_dict == DoubleCadenceValues(Pop(filtered, "moving"))
    IN  IF "time" \notin DOMAIN streams_dict \/ streams_dict["time"] = <<>> THEN NoSample
        ELSE SampleWithTime(streams_dict, interval_seconds, include_pace, include_velocity)

\* streams_data is None or Some(list of [type, data])
SampleStreamsCommon(streams_data, interval_seconds, filter_moving, include_pace, include_velocity) ==
    IF streams_data = None \/ streams_data[1] = <<>> THEN NoSample
    ELSE LET streams_dict == ConvertStreamsToDict(streams_data[1])
             filtered == IF filter_moving THEN FilterByMoving(streams_dict) ELSE streams_dict
         IN  IF filter_moving /\ DOMAIN filtered = {} THEN NoSample
             ELSE SampleNormalised(filtered, interval_seconds, include_pace, include_velocity)

SampleStreamsAtIntervals(streams_data, interval_seconds) ==
    SampleStreamsCommon(streams_data, interval_seconds, TRUE, TRUE, TRUE)

SampleStreamsWithoutMovingFilter(streams_data, interval_seconds) ==
    SampleStreamsCommon(streams_data, interval_seconds, FALSE, FALSE, FALSE)

----------------------------------------------------------------------------
(* Record assembly *)

\* dict.get(key): null when the key is missing
Get(d, key) == IF key \in DOMAIN d THEN d[key] ELSE JNull

\* record key -> activity_data key
ScalarSource(key) ==
    CASE key = "activity_id" -> "id"
      [] key = "name" -> "name"
      [] key = "type" -> "type"
      [] key = "start_date" -> "start_date"
      [] key = "distance_m" -> "distance"
      [] key = "moving_time_s" -> "moving_time"
      [] key = "elapsed_time_s" -> "elapsed_time"
      [] key = "total_elevation_gain_m" -> "total_elevation_gain"
      [] key = "average_speed_ms" -> "average_speed"
      [] key = "max_speed_ms" -> "max_speed"
      [] key = "average_heartrate_bpm" -> "average_heartrate"
      [] key = "max_heartrate_bpm" -> "max_heartrate"
      [] key = "calories" -> "calories"

ScalarKeys ==
    {"activity_id", "name", "type", "start_date", "distance_m", "moving_time_s",
     "elapsed_time_s", "total_elevation_gain_m", "average_speed_ms", "max_speed_ms",
     "average_heartrate_bpm", "max_heartrate_bpm", "calories"}

\* the compact record and the quantiles as JSON objects
CompactJson(compact) == JObj([k \in DOMAIN compact |-> JStr(compact[k])])
QuantilesJson(quantiles) ==
    JObj([k \in DOMAIN quantiles |->
            JObj([l \in DOMAIN quantiles[k] |-> JFlt(quantiles[k][l])])])

\* mutant: the null-valued fields are kept
RemoveNoneValues_Keep(jsonl_obj) == jsonl_obj

\* {k: v for k, v in jsonl_obj.items() if v is not None}
RemoveNoneValues(jsonl_obj) ==
    Restrict(jsonl_obj, {k \in DOMAIN jsonl_obj : ~IsNull(jsonl_obj[k])})

\* mutant: the altitude fields of a rest activity are kept
ApplyTypePolicy_KeepAltitude(sampled, is_running, is_rest) ==
    [err |-> sampled.err, compact |-> sampled.compact,
     quantiles |-> IF ~is_running /\ DOMAIN sampled.quantiles # {}
                   THEN Pop(sampled.quantiles, "distance_m") ELSE sampled.quantiles]

\* mutant: the distance quantiles of a non-running activity are kept
ApplyTypePolicy_KeepDistance(sampled, is_running, is_rest) ==
    [err |-> sampled.err,
     compact |-> IF is_rest /\ DOMAIN sampled.compact # {}
                 THEN Pop(sampled.compact, "alt_m_csv") ELSE sampled.compact,
     quantiles |-> IF is_rest /\ DOMAIN sampled.quantiles # {}
                   THEN Pop(sampled.quantiles, "altitude_m") ELSE sampled.quantiles]

\* the activity-type policy applied to what _sample_streams_common returned
ApplyTypePolicy(sampled, is_running, is_rest) ==
    LET q1 == IF ~is_running /\ DOMAIN sampled.quantiles # {}
              THEN Pop(sampled.quantiles, "distance_m") ELSE sampled.quantiles
        c2 == IF is_rest /\ DOMAIN sampled.compact # {}
              THEN Pop(sampled.compact, "alt_m_csv") ELSE sampled.compact
        q2 == IF is_rest /\ DOMAIN q1 # {} THEN Pop(q1, "altitude_m") ELSE q1
    IN  [err |-> sampled.err, compact |-> c2, quantiles |-> q2]

\* mutant: the moving filter is requested for every activity type
TypeFlags_AlwaysFilter(is_running) == <<TRUE, is_running, is_running>>

\* <<filter_moving, include_pace, include_velocity>> handed to _sample_streams_common
TypeFlags(is_running) == <<is_running, is_running, is_running>>

\* returns [err, rec]
CreateActivityJsonlObject(activity_data, streams_data, interval_seconds) ==
    LET scalars == [k \in ScalarKeys |-> Get(activity_data, ScalarSource(k))]
        activity_name == Get(activity_data, "name")
        is_running == IsRunningActivity(activity_name)
        is_rest == IsRestActivity(activity_name)
        f == TypeFlags(is_running)
        sampled == IF streams_data # None /\ streams_data[1] # <<>>
                   THEN ApplyTypePolicy(
                            SampleStreamsCommon(streams_data, interval_seconds,
                                                f[1], f[2], f[3]),
                            is_running, is_rest)
                   ELSE NoSample
        with_compact == IF DOMAIN sampled.compact # {}
                        THEN Put(scalars, "streams_compact", CompactJson(sampled.compact))
                        ELSE scalars
        jsonl_obj == IF DOMAIN sampled.quantiles # {}
                     THEN Put(with_compact, "quantiles", QuantilesJson(sampled.quantiles))
                     ELSE with_compact
    IN  IF sampled.err # "" THEN [err |-> sampled.err, rec |-> EmptyDict]
        ELSE [err |-> "", rec |-> RemoveNoneValues(jsonl_obj)]

----------------------------------------------------------------------------
(* Inputs of the pipeline: activities and raw streams *)

MaxLen == 3          \* longest raw stream

Raw(type, data) == [type |-> type, data |-> data]

Ramp(n, start, step) == [i \in 1..n |-> Some(start + (i - 1) * step)]

NameRunning == <<"R", "u", "n", "n", "i", "n", "g", " ", "1">>
NameRunningUpper == <<" ", "R", "U", "N", "N", "I", "N", "G">>
NameRest == <<"R", "e", "s", "t", " ", "1", "2", " ", "(", "A", "p", "p", "l", "e", " ",
              "J", "D", ")">>
NameRestLower == <<"\t", "r", "e", "s", "t">>
NameTreppe == <<"T", "r", "e", "p", "p", "e", " ", "3">>
NameRun == <<"R", "u", "n">>

CoreNames == {JStr(NameRunning), JStr(NameRest), JStr(NameTreppe), JNull}
AllNames == CoreNames \cup {JStr(NameRunningUpper), JStr(NameRestLower), JStr(NameRun),
                            JStr(<<>>)}

\* an activity summary with every scalar set
FullActivity(name) ==
    [id |-> JInt(42), name |-> name, type |-> JStr(<<"R", "u", "n">>),
     start_date |-> JStr(<<"2", "0", "2", "5">>), distance |-> JFlt(1200500000),
     moving_time |-> JInt(300), elapsed_time |-> JInt(320),
     total_elevation_gain |-> JFlt(12000000), average_speed |-> JFlt(3200000),
     max_speed |-> JFlt(4100000), average_heartrate |-> JFlt(150300000),
     max_heartrate |-> JInt(181), calories |-> JFlt(250000000)]

\* activity summaries in which some scalars are null or missing
NullPatterns ==
    {{}, {"calories"}, {"average_heartrate", "max_heartrate"}, {"distance", "id"},
     {"id", "type", "start_date", "distance", "moving_time", "elapsed_time",
      "total_elevation_gain", "average_speed", "max_speed", "average_heartrate",
      "max_heartrate", "calories"}}

SparseActivity(name, nulls, missing) ==
    LET full == FullActivity(name)
    IN  [k \in DOMAIN full \ missing |-> IF k \in nulls THEN JNull ELSE full[k]]

\* time streams: increasing ramps, one with a null sample, one running backwards
TimeSteps == {1, 3}
TimeStarts == {0, 10}

RECURSIVE TimeRamps(_)
TimeRamps(n) ==
    IF n = 1 THEN {<<Some(t)>> : t \in TimeStarts}
    ELSE {Append(s, Some(s[Len(s)][1] + d)) : s \in TimeRamps(n - 1), d \in TimeSteps}

TimeData ==
    UNION {TimeRamps(n) : n \in 1..MaxLen}
    \cup {<<Some(0), None>>, <<Some(5), Some(3)>>}

\* sensor streams: ramps of every length with at most one null sample
WithNullAt(data, i) == [data EXCEPT ![i] = None]

SensorData ==
    LET ramps == UNION {{Ramp(n, 10, 5), Ramp(n, 2, -3)} : n \in 1..MaxLen}
    IN  {<<>>} \cup ramps \cup UNION {{WithNullAt(d, i) : i \in 1..Len(d)} : d \in ramps}

SensorTypes == {"distance", "heartrate", "altitude", "velocity_smooth", "cadence", "temp"}

MovingData == SeqsUpTo({Some(TRUE), Some(FALSE), None}, MaxLen) \ {<<>>}

\* the list handed over by the fetch layer: time, sensors, moving (each optional)
OptRaw(type, opt) == IF opt = None THEN <<>> ELSE <<Raw(type, opt[1])>>

StreamList(time_opt, sensors, moving_opt) ==
    Some(OptRaw("time", time_opt) \o sensors \o OptRaw("moving", moving_opt))

TimeOpts == {None, Some(<<>>)} \cup {Some(d) : d \in TimeData}

AllSensors(d) ==
    <<Raw("distance", d), Raw("heartrate", d), Raw("altitude", d),
      Raw("velocity_smooth", d), Raw("cadence", d), Raw("temp", d)>>

SensorOpts ==
    {<<>>} \cup {<<Raw(t, d)>> : t \in SensorTypes, d \in SensorData}
           \cup {AllSensors(d) : d \in SensorData}

FewSensorOpts ==
    {<<>>, <<Raw("distance", Ramp(MaxLen, 0, 10))>>,
     <<Raw("heartrate", <<Some(140), None>>), Raw("altitude", Ramp(MaxLen, 3, 1))>>}

PaceSensorOpts ==
    {<<>>, <<Raw("heartrate", <<Some(140), None>>)>>,
     <<Raw("velocity_smooth", Ramp(MaxLen, 3, 1)), Raw("altitude", <<Some(-2)>>)>>}
    \cup {<<Raw("distance", d)>> : d \in SensorData}
    \cup {AllSensors(d) : d \in SensorData}

FewMovingOpts ==
    {None, Some([i \in 1..MaxLen |-> Some(i % 2 = 1)]), Some(<<Some(FALSE), None>>)}

\* stream lists for the metadata-focused calls: none, empty, well-formed, without
\* time, with an empty time stream, with a repeated type
FixedStreamLists ==
    {None, Some(<<>>),
     Some(<<Raw("time", Ramp(3, 0, 3)), Raw("heartrate", Ramp(3, 140, 5)),
            Raw("altitude", Ramp(3, 20, 1)), Raw("distance", Ramp(3, 0, 10)),
            Raw("moving", <<Some(TRUE), Some(TRUE), Some(TRUE)>>)>>),
     Some(<<Raw("heartrate", Ramp(3, 140, 5)), Raw("altitude", Ramp(3, 20, 1))>>),
     Some(<<Raw("time", <<>>), Raw("altitude", Ramp(3, 20, 1))>>),
     Some(<<Raw("altitude", Ramp(2, 20, 1)), Raw("time", Ramp(3, 0, 3)),
            Raw("altitude", Ramp(3, 50, 1))>>)}

Intervals == {2, 5}
NoFlags == <<FALSE, FALSE, FALSE>>

----------------------------------------------------------------------------
(* The pipeline as a state machine: one call of an entry point per behaviour *)

IdleFiles ==
    /\ fs = EmptyDict
    /\ batch = <<>>
    /\ hr = <<0, 0>>
    /\ paths = <<"", "">>
    /\ opened = {}

\* create_activity_jsonl_object on every sensor stream shape
InitSensors ==
    /\ op = "create"
    /\ \E n \in CoreNames : activity = FullActivity(n)
    /\ \E t \in TimeOpts, s \in SensorOpts : streams = StreamList(t, s, None)
    /\ interval \in Intervals
    /\ flags = NoFlags

\* create_activity_jsonl_object on every moving stream
InitMoving ==
    /\ op = "create"
    /\ \E n \in CoreNames : activity = FullActivity(n)
    /\ \E t \in TimeOpts, s \in FewSensorOpts, m \in MovingData :
          streams = StreamList(t, s, Some(m))
    /\ interval = 2
    /\ flags = NoFlags

\* create_activity_jsonl_object on every activity summary
InitScalars ==
    /\ op = "create"
    /\ \E n \in AllNames, nulls \in NullPatterns, missing \in {{}, {"calories", "name"}} :
          activity = SparseActivity(n, nulls, missing)
    /\ streams \in FixedStreamLists
    /\ interval = 5
    /\ flags = NoFlags

\* _sample_streams_common under every combination of its flags
InitFlags ==
    /\ op = "sample"
    /\ activity = EmptyDict
    /\ \E t \in TimeOpts, s \in PaceSensorOpts, m \in FewMovingOpts :
          streams = StreamList(t, s, m)
    /\ interval \in Intervals
    /\ flags \in BOOLEAN \X BOOLEAN \X BOOLEAN

InitPipeline ==
    /\ pc = "call"
    /\ result = None
    /\ err = ""
    /\ IdleFiles
    /\ (InitSensors \/ InitMoving \/ InitScalars \/ InitFlags)

CallCreateActivityJsonlObject ==
    /\ pc = "call"
    /\ op = "create"
    /\ LET r == CreateActivityJsonlObject(activity, streams, interval)
       IN  /\ result' = r.rec
           /\ err' = r.err
    /\ pc' = "done"
    /\ UNCHANGED <<op, activity, streams, interval, flags, fs, batch, hr, paths, opened>>

CallSampleStreamsCommon ==
    /\ pc = "call"
    /\ op = "sample"
    /\ LET r == SampleStreamsCommon(streams, interval, flags[1], flags[2], flags[3])
       IN  /\ result' = [compact |-> r.compact, quantiles |-> r.quantiles]
           /\ err' = r.err
    /\ pc' = "done"
    /\ UNCHANGED <<op, activity, streams, interval, flags, fs, batch, hr, paths, opened>>

NextPipeline == CallCreateActivityJsonlObject \/ CallSampleStreamsCommon

SpecPipeline == InitPipeline /\ [][NextPipeline]_vars

----------------------------------------------------------------------------
(* Properties of record assembly, checked under SpecPipeline *)

Returned(entry) == pc = "done" /\ op = entry /\ err = ""

ActivityName == Get(activity, "name")

\* names that start with "rest" / do not start with "running" once trimmed and
\* lower-cased, listed by hand
RestNames == {JStr(NameRest), JStr(NameRestLower)}
NonRunningNames == {JStr(NameRest), JStr(NameRestLower), JStr(NameTreppe), JStr(NameRun),
                    JStr(<<>>), JNull}

\* a nested object of the assembled record, empty when the key is absent
RecObj(key) == IF key \in DOMAIN result THEN Val(result[key]) ELSE EmptyDict

\* the input stream of a type (the last non-empty one), <<>> when there is none
InputData(type) ==
    IF streams = None THEN <<>>
    ELSE LET sd == ConvertStreamsToDict(streams[1])
         IN  IF type \in DOMAIN sd THEN sd[type] ELSE <<>>

HasNumbers(type) == \E i \in 1..Len(InputData(type)) : InputData(type)[i] # None

\* C2: the record of a rest activity has no alt_m_csv in streams_compact and no
\* altitude_m in quantiles, whatever the input streams are
C2_RestRecordHasNoAltitude ==
    (Returned("create") /\ ActivityName \in RestNames)
        => /\ "alt_m_csv" \notin DOMAIN RecObj("streams_compact")
           /\ "altitude_m" \notin DOMAIN RecObj("quantiles")

C2_Witness ==
    /\ Returned("create")
    /\ ActivityName \in RestNames
    /\ HasNumbers("altitude")
    /\ "streams_compact" \in DOMAIN result
    /\ "quantiles" \in DOMAIN result

\* C3: the record of an activity that is not a running activity has no pace and no
\* velocity series and no pace, velocity or distance quantiles
C3_NonRunningHasNoPaceVelocityDistance ==
    (Returned("create") /\ ActivityName \in NonRunningNames)
        => /\ DOMAIN RecObj("streams_compact")
                \cap {"pace_s_per_km_csv", "velocity_smooth_ms_csv"} = {}
           /\ DOMAIN RecObj("quantiles")
                \cap {"pace_s_per_km", "velocity_smooth_ms", "distance_m"} = {}

C3_Witness ==
    /\ Returned("create")
    /\ ActivityName \in NonRunningNames
    /\ HasNumbers("distance")
    /\ HasNumbers("velocity_smooth")
    /\ "streams_compact" \in DOMAIN result
    /\ "hr_bpm" \in DOMAIN RecObj("quantiles")

WithoutMoving(streams_data) ==
    IF streams_data = None THEN None
    ELSE Some(SelectSeq(streams_data[1], LAMBDA st : st.type # "moving"))

\* C4: for an activity that is not a running activity the call returns what it
\* returns for the same input without the moving stream, so two inputs that differ
\* only in the moving stream give the same record
C4_MovingIgnoredUnlessRunning ==
    (pc = "done" /\ op = "create" /\ ActivityName \in NonRunningNames)
        => LET r == CreateActivityJsonlObject(activity, WithoutMoving(streams), interval)
           IN  r.err = err /\ r.rec = result

C4_Witness ==
    /\ Returned("create")
    /\ ActivityName \in NonRunningNames
    /\ Len(InputData("moving")) >= 2
    /\ InputData("moving")[1] = Some(FALSE)
    /\ InputData("moving")[2] = Some(TRUE)
    /\ Len(InputData("time")) >= 2
    /\ "streams_compact" \in DOMAIN result

\* number of comma-separated entries of a CSV field
Entries(csv) == Len(Split(csv, ","))

\* the rebased time stream _sample_streams_common resamples
ResampledTime ==
    LET sd  == ConvertStreamsToDict(streams[1])
        f   == IF flags[1] THEN FilterByMoving(sd) ELSE sd
        raw == f["time"]
    IN  [i \in 1..Len(raw) |-> raw[i][1] - raw[1][1]]

\* C5: every _csv field of a compact record returned by _sample_streams_common has
\* one entry per resample index
C5_CsvFieldsHaveOneEntryPerIndex ==
    (Returned("sample") /\ DOMAIN result.compact # {})
        => \A k \in DOMAIN result.compact \ {"sampling"} :
              Entries(result.compact[k]) = Len(FindSamplingIndices(ResampledTime, interval))

C5_Witness ==
    /\ Returned("sample")
    /\ {"pace_s_per_km_csv", "hr_bpm_csv", "velocity_smooth_ms_csv", "cadence_spm_csv",
        "alt_m_csv"} \subseteq DOMAIN result.compact
    /\ Entries(result.compact["time_s_csv"]) = MaxLen
    /\ Len(InputData("heartrate")) < Len(InputData("time"))
    /\ \E i \in 1..Len(InputData("heartrate")) : InputData("heartrate")[i] = None

NoTimeStream ==
    \/ streams = None
    \/ \A i \in 1..Len(streams[1]) : streams[1][i].type = "time" => streams[1][i].data = <<>>

\* the scalar metadata of the activity that is not null
ExpectedScalars ==
    LET set == {k \in ScalarKeys : ~IsNull(Get(activity, ScalarSource(k)))}
    IN  [k \in set |-> Get(activity, ScalarSource(k))]

\* C6: without a time stream (or with an empty one) the call raises nothing and
\* returns exactly the non-null scalar metadata: no streams_compact, no quantiles
C6_NoTimeStreamGivesScalarsOnly ==
    (pc = "done" /\ op = "create" /\ NoTimeStream)
        => err = "" /\ result = ExpectedScalars

C6_Witness ==
    /\ Returned("create")
    /\ NoTimeStream
    /\ HasNumbers("heartrate")
    /\ \E k \in ScalarKeys : k \notin DOMAIN result
    /\ "activity_id" \in DOMAIN result

\* C7: no top-level value of the record is null, and without streams (None or an
\* empty list) the record is exactly the non-null scalar metadata
C7_NoNullValuesAndScalarsOnlyWithoutStreams ==
    Returned("create")
        => /\ \A k \in DOMAIN result : ~IsNull(result[k])
           /\ (streams = None \/ streams[1] = <<>>) => result = ExpectedScalars

C7_Witness ==
    /\ Returned("create")
    /\ streams = None \/ streams[1] = <<>>
    /\ \E k \in DOMAIN activity : IsNull(activity[k])
    /\ "name" \in DOMAIN result

----------------------------------------------------------------------------
(* JSON text: json.dumps(obj, ensure_ascii=False) and json.loads(line).        *)
(* A text is a sequence of characters; an object key is written as one symbol *)
(* between its quotes.                                                        *)

\* the order in which the keys of an object are written (insertion order)
KeyOrder ==
    <<"activity_id", "name", "type", "start_date", "distance_m", "moving_time_s",
      "elapsed_time_s", "total_elevation_gain_m", "average_speed_ms", "max_speed_ms",
      "average_heartrate_bpm", "max_heartrate_bpm", "calories", "streams_compact",
      "quantiles", "sampling", "time_s_csv", "pace_s_per_km_csv", "hr_bpm_csv",
      "alt_m_csv", "velocity_smooth_ms_csv", "cadence_spm_csv", "time_s", "distance_m",
      "hr_bpm", "altitude_m", "velocity_smooth_ms", "cadence_spm", "temp",
      "pace_s_per_km", "5", "25", "50", "75", "95">>

KeysInOrder(f) ==
    LET first(k) == CHOOSE i \in 1..Len(KeyOrder) :
                        KeyOrder[i] = k /\ \A j \in 1..(i - 1) : KeyOrder[j] # k
        idx == {first(k) : k \in DOMAIN f}
    IN  SelectSeq([i \in 1..Len(KeyOrder) |-> IF i \in idx THEN <<KeyOrder[i]>> ELSE <<>>],
                  LAMBDA x : x # <<>>)

\* the escape of one character of a string
EscapeChar(c) ==
    CASE c = "\"" -> <<"\\", "\"">>
      [] c = "\\" -> <<"\\", "\\">>
      [] c = "\n" -> <<"\\", "n">>
      [] c = "\t" -> <<"\\", "t">>
      [] c = "\r" -> <<"\\", "r">>
      [] OTHER -> <<c>>

DumpsStr(chars) ==
    <<"\"">> \o Concat([i \in 1..Len(chars) |-> EscapeChar(chars[i])]) \o <<"\"">>

\* the fraction digits of repr(float): six digits without the trailing zeros
RECURSIVE DropTrailingZeros(_)
DropTrailingZeros(digits) ==
    IF Len(digits) > 1 /\ digits[Len(digits)] = "0"
    THEN DropTrailingZeros(SubSeq(digits, 1, Len(digits) - 1))
    ELSE digits

FracDigits(frac) ==
    LET d == NatToStr(frac)
    IN  DropTrailingZeros([i \in 1..(6 - Len(d)) |-> "0"] \o d)

\* repr of a float given in micro-units (magnitudes that need no exponent)
FltToStr(micro) ==
    (IF micro < 0 THEN <<"-">> ELSE <<>>)
    \o NatToStr(Abs(micro) \div Micro) \o <<".">> \o FracDigits(Abs(micro) % Micro)

RECURSIVE Dumps(_)
Dumps(v) ==
    CASE v[1] = "null" -> <<"n", "u", "l", "l">>
      [] v[1] = "int" -> IntToStr(v[2])
      [] v[1] = "flt" -> FltToStr(v[2])
      [] v[1] = "str" -> DumpsStr(v[2])
      [] v[1] = "obj" ->
            LET keys == KeysInOrder(v[2])
            IN  <<"{">>
                \o Join([i \in 1..Len(keys) |->
                            <<"\"", keys[i][1], "\"", ":", " ">> \o Dumps(v[2][keys[i][1]])],
                        <<",", " ">>)
                \o <<"}">>

----------------------------------------------------------------------------
(* json.loads: a parser of the texts above. Every parser returns              *)
(* [ok, v, i]: whether it succeeded, the value, the position after it.        *)

Fail == [ok |-> FALSE, v |-> JNull, i |-> 0]
Parsed(v, i) == [ok |-> TRUE, v |-> v, i |-> i]

At(s, i) == IF i <= Len(s) THEN s[i] ELSE ""

RECURSIVE SkipWs(_, _)
SkipWs(s, i) == IF At(s, i) \in Whitespace THEN SkipWs(s, i + 1) ELSE i

RECURSIVE DigitsEnd(_, _)
DigitsEnd(s, i) == IF At(s, i) \in DigitChars THEN DigitsEnd(s, i + 1) ELSE i

\* a number at s[i]: -?digits(.digits)?
ParseNumber(s, i) ==
    LET neg == At(s, i) = "-"
        i0  == IF neg THEN i + 1 ELSE i
        i1  == DigitsEnd(s, i0)
        ip  == StrToNat(SubSeq(s, i0, i1 - 1))
        sgn == IF neg THEN -1 ELSE 1
    IN  IF i1 = i0 THEN Fail
        ELSE IF At(s, i1) # "." THEN Parsed(JInt(sgn * ip), i1)
        ELSE LET i2 == DigitsEnd(s, i1 + 1)
                 fd == SubSeq(s, i1 + 1, i2 - 1)
                 padded == SubSeq(fd \o <<"0", "0", "0", "0", "0", "0">>, 1, 6)
             IN  IF i2 = i1 + 1 THEN Fail
                 ELSE Parsed(JFlt(sgn * (ip * Micro + StrToNat(padded))), i2)

\* the characters of a string whose opening quote is before s[i]
RECURSIVE ParseChars(_, _, _)
ParseChars(s, i, acc) ==
    LET c == At(s, i)
    IN  IF c = "" \/ c \in {"\n", "\t", "\r"} THEN Fail
        ELSE IF c = "\"" THEN Parsed(JStr(acc), i + 1)
        ELSE IF c = "\\"
             THEN LET e == At(s, i + 1)
                  IN  IF e = "\"" \/ e = "\\" THEN ParseChars(s, i + 2, Append(acc, e))
                      ELSE IF e = "n" THEN ParseChars(s, i + 2, Append(acc, "\n"))
                      ELSE IF e = "t" THEN ParseChars(s, i + 2, Append(acc, "\t"))
                      ELSE IF e = "r" THEN ParseChars(s, i + 2, Append(acc, "\r"))
                      ELSE Fail
        ELSE ParseChars(s, i + 1, Append(acc, c))

RECURSIVE ParseValue(_, _)
RECURSIVE ParseMembers(_, _, _)

\* the members of an object, s[i] being the quote that opens the next key
ParseMembers(s, i, acc) ==
    IF At(s, i) # "\"" \/ At(s, i + 2) # "\"" \/ At(s, i + 1) = "" THEN Fail
    ELSE LET key == At(s, i + 1)
             ic  == SkipWs(s, i + 3)
         IN  IF At(s, ic) # ":" THEN Fail
             ELSE LET r == ParseValue(s, SkipWs(s, ic + 1))
                  IN  IF ~r.ok THEN Fail
                      ELSE LET next == Put(acc, key, r.v)
                               ie   == SkipWs(s, r.i)
                           IN  IF At(s, ie) = "}" THEN Parsed(JObj(next), ie + 1)
                               ELSE IF At(s, ie) = ","
                                    THEN ParseMembers(s, SkipWs(s, ie + 1), next)
                               ELSE Fail

ParseValue(s, i) ==
    LET c == At(s, i)
    IN  IF c = "{"
        THEN LET i1 == SkipWs(s, i + 1)
             IN  IF At(s, i1) = "}" THEN Parsed(JObj(EmptyDict), i1 + 1)
                 ELSE ParseMembers(s, i1, EmptyDict)
        ELSE IF c = "\"" THEN ParseChars(s, i + 1, <<>>)
        ELSE IF c = "n"
             THEN IF i + 3 <= Len(s) /\ SubSeq(s, i, i + 3) = <<"n", "u", "l", "l">>
                  THEN Parsed(JNull, i + 4) ELSE Fail
        ELSE IF c = "-" \/ c \in DigitChars THEN ParseNumber(s, i)
        ELSE Fail

\* json.loads(text): one value and nothing after it; None stands for JSONDecodeError
Loads(text) ==
    LET r == ParseValue(text, SkipWs(text, 1))
    IN  IF r.ok /\ SkipWs(text, r.i) = Len(text) + 1 THEN Some(r.v) ELSE None

----------------------------------------------------------------------------
(* Batch files. A file system maps a path to the text of the file; a batch is *)
(* a list of JSON values.                                                     *)

\* mutant: the lines are written without their line feed
FileText_NoLineFeed(jsonl_objects) ==
    Concat([i \in 1..Len(jsonl_objects) |-> Dumps(jsonl_objects[i])])

\* the text save_jsonl_file writes: json.dumps(obj) + '\n' for every object
FileText(jsonl_objects) ==
    Concat([i \in 1..Len(jsonl_objects) |-> Dumps(jsonl_objects[i]) \o <<"\n">>])

\* open(filepath, 'w') truncates or creates the file
SaveJsonlFile(files, jsonl_objects, filepath) == Put(files, filepath, FileText(jsonl_objects))

\* text mode reads "\r\n" and "\r" as "\n"
TranslateNewlines(text) ==
    LET kept == SelectSeq([i \in 1..Len(text) |-> i],
                          LAMBDA i : ~(text[i] = "\n" /\ i > 1 /\ text[i - 1] = "\r"))
    IN  [k \in 1..Len(kept) |-> IF text[kept[k]] = "\r" THEN "\n" ELSE text[kept[k]]]

\* for line in f: line = line.strip(); if line: ...
NonBlankLines(text) ==
    LET lines == Split(TranslateNewlines(text), "\n")
    IN  SelectSeq([i \in 1..Len(lines) |-> Strip(lines[i])], LAMBDA l : l # <<>>)

\* the reading loop of load_jsonl_file and modify_heartrate_to_abnormal:
\* [err, objects]
ReadJsonLines(files, filepath) ==
    IF filepath \notin DOMAIN files THEN [err |-> "FileNotFoundError", objects |-> <<>>]
    ELSE LET lines  == NonBlankLines(files[filepath])
             parsed == [i \in 1..Len(lines) |-> Loads(lines[i])]
         IN  IF \E i \in 1..Len(lines) : parsed[i] = None
             THEN [err |-> "JSONDecodeError", objects |-> <<>>]
             ELSE [err |-> "", objects |-> [i \in 1..Len(lines) |-> parsed[i][1]]]

\* mutant: a line that does not parse is skipped
LoadJsonlFile_BestEffort(files, filepath) ==
    IF filepath \notin DOMAIN files THEN [err |-> "FileNotFoundError", objects |-> <<>>]
    ELSE LET lines == NonBlankLines(files[filepath])
             good  == SelectSeq(lines, LAMBDA l : Loads(l) # None)
         IN  [err |-> "", objects |-> [i \in 1..Len(good) |-> Loads(good[i])[1]]]

LoadJsonlFile(files, filepath) == ReadJsonLines(files, filepath)

----------------------------------------------------------------------------
(* modify_heartrate_to_abnormal *)

\* mutant: equal bounds are accepted
InvalidRange_Strict(min_hr, max_hr) == min_hr > max_hr

\* the precondition check: min_hr >= max_hr raises ValueError
InvalidRange(min_hr, max_hr) == min_hr >= max_hr

HasHrCsv(obj) ==
    /\ IsObj(obj)
    /\ "streams_compact" \in DOMAIN Val(obj)
    /\ "hr_bpm_csv" \in DOMAIN Val(Val(obj)["streams_compact"])

HrCsv(obj) == Val(Val(Val(obj)["streams_compact"])["hr_bpm_csv"])

\* [val.strip() for val in hr_csv.split(',') if val.strip()]
HrTokens(hr_csv) ==
    LET pieces == Split(hr_csv, ",")
    IN  SelectSeq([i \in 1..Len(pieces) |-> Strip(pieces[i])], LAMBDA t : t # <<>>)

\* how many values random.randint is asked for
DrawCount(obj) == IF HasHrCsv(obj) /\ HrCsv(obj) # <<>> THEN Len(HrTokens(HrCsv(obj))) ELSE 0

\* mutant: the upper bound is exceeded by one
RandInts_PastMax(n, min_hr, max_hr) == [1..n -> min_hr..(max_hr + 1)]

\* the outcomes of n calls of random.randint(min_hr, max_hr)
RandInts(n, min_hr, max_hr) == [1..n -> min_hr..max_hr]

\* mutant: the summary in the record is left as it was
UpdateHrQuantiles_Stale(o, numeric_hr) == o

\* mutant: the quantiles object is replaced by one that holds hr_bpm alone
UpdateHrQuantiles_OnlyHr(o, numeric_hr) ==
    Put(o, "quantiles",
        JObj([t \in {"hr_bpm"} |->
                JObj([k \in LevelKeys |->
                        JFlt(PercentileMicro(Sorted(numeric_hr), LevelOf(k)))])]))

\* quantiles.hr_bpm is created or overwritten with the summary of numeric_hr
UpdateHrQuantiles(o, numeric_hr) ==
    LET old_q == IF "quantiles" \in DOMAIN o THEN Val(o["quantiles"]) ELSE EmptyDict
        hr_q  == JObj([k \in LevelKeys |->
                         JFlt(PercentileMicro(Sorted(numeric_hr), LevelOf(k)))])
    IN  Put(o, "quantiles", JObj(Put(old_q, "hr_bpm", hr_q)))

\* average_heartrate_bpm and max_heartrate_bpm are overwritten where present
UpdateHrScalars(o, numeric_hr) ==
    LET avg_hr == SumSeq(numeric_hr) \div Len(numeric_hr)       \* int(np.mean(...))
        max_hr_value == MaxSeq(numeric_hr)
        o1 == IF "average_heartrate_bpm" \in DOMAIN o
              THEN Put(o, "average_heartrate_bpm", JInt(avg_hr)) ELSE o
    IN  IF "max_heartrate_bpm" \in DOMAIN o1
        THEN Put(o1, "max_heartrate_bpm", JInt(max_hr_value)) ELSE o1

\* the loop body for an object with a non-empty hr_bpm_csv, given the values drawn
ModifyHrObject(obj, draws) ==
    LET o == Val(obj)
        new_hr_values == [i \in 1..Len(draws) |-> IntToStr(draws[i])]
        compact == Put(Val(o["streams_compact"]), "hr_bpm_csv",
                       JStr(Join(new_hr_values, <<",">>)))
        o1 == Put(o, "streams_compact", JObj(compact))
        numeric_hr == [i \in 1..Len(new_hr_values) |-> StrToInt(new_hr_values[i])]
    IN  IF numeric_hr = <<>> THEN JObj(o1)
        ELSE JObj(UpdateHrScalars(UpdateHrQuantiles(o1, numeric_hr), numeric_hr))

\* mutant: the quantiles object is created before hr_bpm_csv is looked for
ModifyObject_QuantilesAlways(obj, draws) ==
    IF ~HasHrCsv(obj) \/ HrCsv(obj) = <<>>
    THEN IF "quantiles" \in DOMAIN Val(obj) THEN obj
         ELSE JObj(Put(Val(obj), "quantiles", JObj(EmptyDict)))
    ELSE ModifyHrObject(obj, draws)

\* the body of the loop for one parsed object, given the values drawn
ModifyObject(obj, draws) ==
    IF ~HasHrCsv(obj) \/ HrCsv(obj) = <<>> THEN obj
    ELSE ModifyHrObject(obj, draws)

\* every list modified_objects the loop can build from the parsed objects
RECURSIVE ModifiedObjects(_, _, _)
ModifiedObjects(objects, min_hr, max_hr) ==
    IF objects = <<>> THEN {<<>>}
    ELSE {<<ModifyObject(Head(objects), d)>> \o rest :
            d \in RandInts(DrawCount(Head(objects)), min_hr, max_hr),
            rest \in ModifiedObjects(Tail(objects), min_hr, max_hr)}

----------------------------------------------------------------------------
(* Records for the batch operations: built by create_activity_jsonl_object,  *)
(* plus two written by hand that a JSONL file may hold.                       *)

MaxRecords == 2      \* longest batch

Rec(activity_data, streams_data, interval_seconds) ==
    JObj(CreateActivityJsonlObject(activity_data, streams_data, interval_seconds).rec)

AllActivityKeys == DOMAIN FullActivity(JNull)

HrActivity ==
    SparseActivity(JStr(NameRun), {},
                   AllActivityKeys \ {"name", "average_heartrate", "max_heartrate"})

HrStreams(n, hr_data) == Some(<<Raw("time", Ramp(n, 0, 5)), Raw("heartrate", hr_data)>>)

RecThreeBeats == Rec(HrActivity, HrStreams(3, Ramp(3, 140, 10)), 5)
RecGapBeat == Rec(HrActivity, HrStreams(3, <<Some(140), None, Some(160)>>), 5)
RecNoBeats == Rec(HrActivity, HrStreams(3, <<None, None, None>>), 5)
RecOneBeat == Rec(SparseActivity(JStr(NameRest), {}, AllActivityKeys \ {"name"}),
                  HrStreams(1, <<Some(150)>>), 5)
RecAltitudeOnly ==
    Rec(HrActivity, Some(<<Raw("time", Ramp(2, 0, 5)), Raw("altitude", Ramp(2, 20, 1))>>), 5)
RecScalarsOnly == Rec(HrActivity, None, 5)
RecEmptyCsv == JObj([streams_compact |-> JObj([hr_bpm_csv |-> JStr(<<>>)])])
RecPaddedCsv ==
    JObj([streams_compact |-> JObj([hr_bpm_csv |-> JStr(<<" ", "9", "0", ",", " ">>)]),
          max_heartrate_bpm |-> JInt(90)])

HrPool == {RecThreeBeats, RecGapBeat, RecNoBeats, RecOneBeat, RecAltitudeOnly,
           RecScalarsOnly, RecEmptyCsv, RecPaddedCsv}

NameAwkward == <<" ", "a", "\"", "b", "\\", "n", "\n", ",", "{", "\t", "}", "\r", " ">>

RecFullRun ==
    Rec(FullActivity(JStr(NameRunning)),
        Some(<<Raw("time", Ramp(3, 0, 3)), Raw("heartrate", Ramp(3, 140, 5)),
               Raw("altitude", <<Some(0 - 2), Some(0), Some(3)>>),
               Raw("distance", Ramp(3, 0, 10)), Raw("cadence", Ramp(3, 80, 1)),
               Raw("velocity_smooth", Ramp(3, 3, 1)),
               Raw("moving", <<Some(TRUE), Some(TRUE), Some(TRUE)>>)>>), 2)
RecAwkwardName == Rec(FullActivity(JStr(NameAwkward)), None, 5)
RecEmpty == Rec(EmptyDict, None, 5)

RecordPool == {RecFullRun, RecAwkwardName, RecEmpty, RecThreeBeats, RecGapBeat,
               RecScalarsOnly}

OldText == <<"{", "}", "\n", "{", "}", "\n", "{", "}", "\n", "o", "l", "d">>

IdlePipeline ==
    /\ activity = EmptyDict
    /\ streams = None
    /\ interval = 0
    /\ flags = NoFlags

----------------------------------------------------------------------------
(* Saving a batch and loading it back *)

\* lines that hold nothing, and lines that are not JSON
BlankLines == {<<"\n">>, <<" ", "\t", "\n">>, <<"\r", "\n">>}
BadLines == {<<"{", "b", "a", "d", "\n">>, <<"{", "\"", "a", "\"", ":", " ", "}", "\n">>,
             <<"{", "}", "{", "}", "\n">>, <<"n", "u", "l", "\n">>, <<"{">>}

\* the saved text of the objects with one more line after the first k of them
WithLineAfter(objects, k, line) ==
    FileText(SubSeq(objects, 1, k)) \o line \o FileText(SubSeq(objects, k + 1, Len(objects)))

BlankLineTexts(objects) ==
    {WithLineAfter(objects, k, line) : k \in 0..Len(objects), line \in BlankLines}

MalformedTexts(objects) ==
    {WithLineAfter(objects, k, line) : k \in 0..Len(objects), line \in BadLines}

\* a batch is saved and loaded back, over a new or an existing file
InitRoundTrip ==
    /\ pc = "save"
    /\ op = "roundtrip"
    /\ fs \in {EmptyDict, [p \in {"activities.jsonl"} |-> OldText]}

\* a file is loaded that holds the batch and a blank or malformed line
InitLoad ==
    /\ pc = "load"
    /\ op = "load"
    /\ \E text \in BlankLineTexts(batch) \cup MalformedTexts(batch) :
          fs = [p \in {"activities.jsonl"} |-> text]

InitBatch ==
    /\ IdlePipeline
    /\ batch \in SeqsUpTo(RecordPool, MaxRecords)
    /\ paths = <<"activities.jsonl", "">>
    /\ (InitRoundTrip \/ InitLoad)
    /\ hr = <<0, 0>>
    /\ opened = {}
    /\ result = None
    /\ err = ""

CallSaveJsonlFile ==
    /\ pc = "save"
    /\ fs' = SaveJsonlFile(fs, batch, paths[1])
    /\ opened' = opened \cup {<<paths[1], "w">>}
    /\ pc' = "load"
    /\ UNCHANGED <<op, activity, streams, interval, flags, result, err, batch, hr, paths>>

CallLoadJsonlFile ==
    /\ pc = "load"
    /\ LET r == LoadJsonlFile(fs, paths[1])
       IN  /\ result' = r.objects
           /\ err' = r.err
    /\ opened' = opened \cup {<<paths[1], "r">>}
    /\ pc' = "done"
    /\ UNCHANGED <<op, activity, streams, interval, flags, fs, batch, hr, paths>>

NextBatch == CallSaveJsonlFile \/ CallLoadJsonlFile

SpecBatch == InitBatch /\ [][NextBatch]_vars

----------------------------------------------------------------------------
(* One call of modify_heartrate_to_abnormal on a file holding a batch *)

HrPairs == {<<210, 211>>, <<5, 5>>, <<7, 3>>}

PathPairs == {<<"in.jsonl", "out.jsonl">>, <<"in.jsonl", "in.jsonl">>,
              <<"missing.jsonl", "out.jsonl">>}

\* texts of an input file that holds the batch: as saved, with blank lines, or
\* with an unfinished last line
InputTexts(objects) ==
    {FileText(objects),
     <<"\n">> \o FileText(objects) \o <<" ", "\n">>,
     FileText(objects) \o <<"{">>}

\* either the paths vary over a file as saved, or the text varies
InitModifyFiles ==
    \/ /\ paths \in PathPairs
       /\ fs = [p \in {"in.jsonl"} |-> FileText(batch)]
    \/ /\ paths = <<"in.jsonl", "out.jsonl">>
       /\ \E text \in InputTexts(batch) : fs = [p \in {"in.jsonl"} |-> text]

InitModify ==
    /\ pc = "call"
    /\ op = "modify"
    /\ IdlePipeline
    /\ batch \in SeqsUpTo(HrPool, MaxRecords)
    /\ InitModifyFiles
    /\ hr \in HrPairs
    /\ opened = {}
    /\ result = None
    /\ err = ""

CallModifyHeartrateToAbnormal ==
    /\ pc = "call"
    /\ op = "modify"
    /\ IF InvalidRange(hr[1], hr[2])
       THEN /\ err' = "ValueError"
            /\ UNCHANGED <<fs, opened, result>>
       ELSE LET r == ReadJsonLines(fs, paths[1])
            IN  IF r.err = "FileNotFoundError"
                THEN /\ err' = "FileNotFoundError"
                     /\ UNCHANGED <<fs, opened, result>>
                ELSE IF r.err = "JSONDecodeError"
                THEN /\ err' = "ValueError"
                     /\ opened' = {<<paths[1], "r">>}
                     /\ UNCHANGED <<fs, result>>
                ELSE \E modified_objects \in ModifiedObjects(r.objects, hr[1], hr[2]) :
                        /\ fs' = SaveJsonlFile(fs, modified_objects, paths[2])
                        /\ opened' = {<<paths[1], "r">>, <<paths[2], "w">>}
                        /\ result' = modified_objects
                        /\ err' = ""
    /\ pc' = "done"
    /\ UNCHANGED <<op, activity, streams, interval, flags, batch, hr, paths>>

NextModify == CallModifyHeartrateToAbnormal

SpecModify == InitModify /\ [][NextModify]_vars

----------------------------------------------------------------------------
(* Properties of the batch files, checked under SpecBatch and SpecModify *)

\* C1: saving a batch of records built by the pipeline and loading the file
\* back returns the same list: same records, same order, same keys and values.
C1_LoadAfterSaveReturnsTheBatch ==
    (pc = "done" /\ op = "roundtrip") => (err = "" /\ result = batch)

C1_Witness ==
    /\ pc = "done"
    /\ op = "roundtrip"
    /\ batch = <<RecAwkwardName, RecFullRun>>
    /\ fs[paths[1]] # OldText
    /\ result = batch

\* C8: a call of modify_heartrate_to_abnormal with min_hr >= max_hr ends in a
\* ValueError without opening the input file and without writing any file.
C8_InvalidRangeFailsBeforeAnyFileIsTouched ==
    [][(pc = "call" /\ op = "modify" /\ hr[1] >= hr[2])
          => (err' = "ValueError" /\ fs' = fs /\ opened' = {})]_vars

C8_Witness ==
    /\ pc = "done"
    /\ op = "modify"
    /\ hr[1] = hr[2]
    /\ paths = <<"in.jsonl", "out.jsonl">>
    /\ batch = <<RecThreeBeats>>
    /\ fs = [p \in {"in.jsonl"} |-> FileText(batch)]
    /\ err = "ValueError"
    /\ opened = {}

\* the records of the output file of a finished modification
Written == ReadJsonLines(fs, paths[2]).objects

Modified == pc = "done" /\ op = "modify" /\ err = ""

\* C9: after a modification, hr_bpm_csv of every record has as many
\* comma-separated entries as it had in the input, empty entries included.
C9_EntryCountIsPreserved ==
    Modified =>
        LET written == Written
        IN  \A i \in 1..Len(batch) :
               HasHrCsv(batch[i]) =>
                   /\ HasHrCsv(written[i])
                   /\ Entries(HrCsv(written[i])) = Entries(HrCsv(batch[i]))

\* C10: after a modification with min_hr < max_hr, every non-empty entry of
\* hr_bpm_csv in a record whose input hr_bpm_csv was not empty is the decimal
\* text of an integer between min_hr and max_hr.
C10_NewEntriesAreIntegersInRange ==
    Modified =>
        LET written == Written
        IN  /\ hr[1] < hr[2]
            /\ Len(written) = Len(batch)
            /\ \A i \in 1..Len(batch) :
                  (HasHrCsv(batch[i]) /\ HrCsv(batch[i]) # <<>>) =>
                      LET entries == Split(HrCsv(written[i]), ",")
                      IN  \A j \in 1..Len(entries) :
                             entries[j] # <<>> =>
                                 /\ IsIntStr(entries[j])
                                 /\ StrToInt(entries[j]) >= hr[1]
                                 /\ StrToInt(entries[j]) <= hr[2]
                                 /\ IntToStr(StrToInt(entries[j])) = entries[j]

C10_Witness ==
    /\ Modified
    /\ hr = <<210, 211>>
    /\ batch = <<RecThreeBeats, RecOneBeat>>
    /\ HrCsv(Written[1]) = <<"2", "1", "0", ",", "2", "1", "1", ",", "2", "1", "0">>
    /\ HrCsv(Written[2]) = <<"2", "1", "1">>

\* the records of the batch whose hr_bpm_csv holds at least one value
Replaced(i) == HasHrCsv(batch[i]) /\ HrTokens(HrCsv(batch[i])) # <<>>

\* the heart-rate values a written record carries in hr_bpm_csv
NewValues(rec) ==
    LET entries == Split(HrCsv(rec), ",")
    IN  [j \in 1..Len(entries) |-> StrToInt(entries[j])]

\* a JSON number in micro-units
NumMicro(v) == IF v[1] = "int" THEN v[2] * Micro ELSE v[2]

\* C11: after a modification, in every record whose hr_bpm_csv held values,
\* quantiles.hr_bpm is the 5/25/50/75/95 summary of the values now written in
\* hr_bpm_csv, each level between the smallest and the largest of them; the
\* other quantile entries are the ones of the input.
C11_HrQuantilesSummariseTheNewValues ==
    Modified =>
        LET written == Written
        IN  \A i \in 1..Len(batch) :
               Replaced(i) =>
                   /\ "quantiles" \in DOMAIN Val(written[i])
                   /\ "hr_bpm" \in DOMAIN Val(Val(written[i])["quantiles"])
                   /\ LET new  == NewValues(written[i])
                          q    == Val(Val(written[i])["quantiles"])
                          hr_q == Val(q["hr_bpm"])
                          old  == IF "quantiles" \in DOMAIN Val(batch[i])
                                  THEN Val(Val(batch[i])["quantiles"]) ELSE EmptyDict
                      IN  /\ DOMAIN hr_q = LevelKeys
                          /\ \A k \in LevelKeys :
                                /\ hr_q[k] = JFlt(PercentileMicro(Sorted(new), LevelOf(k)))
                                /\ NumMicro(hr_q[k]) >= MinSeq(new) * Micro
                                /\ NumMicro(hr_q[k]) <= MaxSeq(new) * Micro
                          /\ DOMAIN q = DOMAIN old \cup {"hr_bpm"}
                          /\ \A t \in DOMAIN old \ {"hr_bpm"} : q[t] = old[t]

C11_Witness ==
    /\ Modified
    /\ batch = <<RecThreeBeats>>
    /\ Val(Val(Val(batch[1])["quantiles"])["hr_bpm"])["50"] = JFlt(150 * Micro)
    /\ HrCsv(Written[1]) = <<"2", "1", "1", ",", "2", "1", "0", ",", "2", "1", "1">>
    /\ Val(Val(Val(Written[1])["quantiles"])["hr_bpm"])["50"] = JFlt(211 * Micro)
    /\ Val(Val(Val(Written[1])["quantiles"])["hr_bpm"])["5"] = JFlt(210100000)

\* C12: after a modification, in every record whose hr_bpm_csv held values, an
\* existing average_heartrate_bpm equals the mean of the new values and an
\* existing max_heartrate_bpm equals their maximum; neither field is created.
C12_ScalarsAreMeanAndMaxOfNewValues ==
    Modified =>
        LET written == Written
        IN  \A i \in 1..Len(batch) :
               Replaced(i) =>
                   LET new == NewValues(written[i])
                       in  == Val(batch[i])
                       out == Val(written[i])
                   IN  /\ ("average_heartrate_bpm" \in DOMAIN out)
                             = ("average_heartrate_bpm" \in DOMAIN in)
                       /\ ("max_heartrate_bpm" \in DOMAIN out)
                             = ("max_heartrate_bpm" \in DOMAIN in)
                       /\ "average_heartrate_bpm" \in DOMAIN in =>
                             NumMicro(out["average_heartrate_bpm"]) * Len(new)
                                = SumSeq(new) * Micro
                       /\ "max_heartrate_bpm" \in DOMAIN in =>
                             NumMicro(out["max_heartrate_bpm"]) = MaxSeq(new) * Micro

\* C13: after a modification, in every record that has max_heartrate_bpm and
\* whose hr_bpm_csv held values, max_heartrate_bpm is the max_hr argument.
C13_MaxHeartrateIsMaxHrArgument ==
    Modified =>
        LET written == Written
        IN  \A i \in 1..Len(batch) :
               (Replaced(i) /\ "max_heartrate_bpm" \in DOMAIN Val(batch[i])) =>
                   Val(written[i])["max_heartrate_bpm"] = JInt(hr[2])

\* C14: a record without streams_compact.hr_bpm_csv is written to the output
\* as it was read: same keys, same values.
C14_RecordsWithoutHrCsvPassThrough ==
    Modified =>
        LET written == Written
        IN  /\ Len(written) = Len(batch)
            /\ \A i \in 1..Len(batch) : ~HasHrCsv(batch[i]) => written[i] = batch[i]

C14_Witness ==
    /\ Modified
    /\ batch = <<RecThreeBeats, RecAltitudeOnly>>
    /\ paths[2] = "out.jsonl"
    /\ {"quantiles", "streams_compact", "average_heartrate_bpm", "max_heartrate_bpm"}
          \subseteq DOMAIN Val(Written[2])
    /\ Written[1] # batch[1]
    /\ Written[2] = RecAltitudeOnly

\* C15: whatever the paths, the file at the input path holds after the call
\* what it held before.
C15_InputFileIsNeverMutated ==
    [][(pc = "call" /\ op = "modify" /\ paths[1] \in DOMAIN fs)
          => (paths[1] \in DOMAIN fs' /\ fs'[paths[1]] = fs[paths[1]])]_vars

\* C16: loading a file in which a non-blank line is not valid JSON fails with
\* a parse error and returns no record, wherever the line stands; a file whose
\* extra lines are all blank loads as the batch it holds.
C16_MalformedLineFailsTheLoadBlankLinesAreSkipped ==
    (pc = "done" /\ op = "load") =>
        /\ fs[paths[1]] \in MalformedTexts(batch) =>
              (err = "JSONDecodeError" /\ result = <<>>)
        /\ fs[paths[1]] \in BlankLineTexts(batch) => (err = "" /\ result = batch)

C16_Witness ==
    /\ pc = "done"
    /\ op = "load"
    /\ batch = <<RecThreeBeats, RecAwkwardName>>
    /\ fs[paths[1]] = WithLineAfter(batch, 2, <<"{", "b", "a", "d", "\n">>)
    /\ err = "JSONDecodeError"
    /\ result = <<>>

----------------------------------------------------------------------------
(* More properties of the sampling, checked under SpecPipeline *)

\* C17: for the same streams and flags, _sample_streams_common returns the same
\* quantiles (same keys, same values, pace_s_per_km included) and the same
\* outcome for every interval.
C17_QuantilesDoNotDependOnInterval ==
    (pc = "done" /\ op = "sample") =>
        \A other \in Intervals :
            LET r == SampleStreamsCommon(streams, other, flags[1], flags[2], flags[3])
            IN  /\ r.err = err
                /\ r.quantiles = result.quantiles

C17_Witness ==
    /\ Returned("sample")
    /\ interval = 2
    /\ Len(InputData("time")) = 3
    /\ {"pace_s_per_km", "distance_m", "time_s"} \subseteq DOMAIN result.quantiles
    /\ SampleStreamsCommon(streams, 5, flags[1], flags[2], flags[3]).compact # result.compact
    /\ Entries(SampleStreamsCommon(streams, 5, flags[1], flags[2], flags[3]).compact["time_s_csv"])
          < Entries(result.compact["time_s_csv"])

----------------------------------------------------------------------------
(* combine_activities_to_jsonl: one call on a list of activities (batch) and *)
(* a dictionary of stream lists keyed by activity id (streams)               *)

\* mutant: the cadence list of the caller is doubled in place
StreamsAfterCreate_CadenceInPlace(streams_data) ==
    IF streams_data = None THEN None
    ELSE Some([i \in 1..Len(streams_data[1]) |->
                 IF streams_data[1][i].type = "cadence"
                 THEN Raw("cadence", DoubleCadenceValues(
                                        [t \in {"cadence"} |-> streams_data[1][i].data])["cadence"])
                 ELSE streams_data[1][i]])

\* what create_activity_jsonl_object leaves in the stream list it was given:
\* the dictionary and the lists it changes are its own
StreamsAfterCreate(streams_data) == streams_data

\* streams_dict.get(activity_id) if streams_dict else None
StreamsOf(streams_dict, act) ==
    LET activity_id == Get(act, "id")
    IN  IF streams_dict = None \/ DOMAIN streams_dict[1] = {} THEN None
        ELSE IF IsNull(activity_id) \/ Val(activity_id) \notin DOMAIN streams_dict[1] THEN None
        ELSE Some(streams_dict[1][Val(activity_id)])

\* the loop over the activities: [err, objects]
RECURSIVE CombineLoop(_, _, _, _)
CombineLoop(activities, streams_dict, interval_seconds, jsonl_objects) ==
    IF activities = <<>> THEN [err |-> "", objects |-> jsonl_objects]
    ELSE LET act          == Head(activities)
             streams_data == StreamsOf(streams_dict, act)
             r            == CreateActivityJsonlObject(act, streams_data, interval_seconds)
             after        == IF streams_data = None THEN streams_dict
                             ELSE Some([streams_dict[1] EXCEPT ![Val(Get(act, "id"))] =
                                           StreamsAfterCreate(streams_data)[1]])
         IN  IF r.err # "" THEN [err |-> r.err, objects |-> <<>>]
             ELSE CombineLoop(Tail(activities), after, interval_seconds,
                              Append(jsonl_objects, r.rec))

CombineActivitiesToJsonl(activities, streams_dict, interval_seconds) ==
    CombineLoop(activities, streams_dict, interval_seconds, <<>>)

\* activities: running and rest, ids 1 and 2, without id, with a null id
IdActivity(id, name) ==
    [id |-> id, name |-> JStr(name), distance |-> JFlt(1200500000), max_heartrate |-> JInt(181)]

ActivityPool ==
    {IdActivity(JInt(1), NameRunning), IdActivity(JInt(1), NameRest),
     IdActivity(JInt(2), NameRunning), IdActivity(JInt(2), NameTreppe),
     IdActivity(JNull, NameRunning), [name |-> JStr(NameRest)]}

StreamsWithCadence ==
    <<Raw("time", Ramp(3, 10, 3)), Raw("distance", Ramp(3, 0, 10)),
      Raw("cadence", <<Some(80), None, Some(84)>>), Raw("altitude", Ramp(3, 20, 1)),
      Raw("moving", <<Some(TRUE), Some(FALSE), Some(TRUE)>>)>>
StreamsShort == <<Raw("time", Ramp(2, 0, 5)), Raw("heartrate", Ramp(2, 140, 9))>>
StreamsBadTime == <<Raw("time", <<Some(0), None>>), Raw("heartrate", Ramp(2, 140, 9))>>

StreamDicts ==
    {None, Some(EmptyDict),
     Some([i \in {1} |-> StreamsWithCadence]),
     Some([i \in {1, 2} |-> IF i = 1 THEN StreamsWithCadence ELSE StreamsShort]),
     Some([i \in {1, 2} |-> IF i = 1 THEN <<>> ELSE StreamsWithCadence]),
     Some([i \in {2, 3} |-> IF i = 2 THEN StreamsBadTime ELSE StreamsShort])}

InitCombine ==
    /\ pc = "call"
    /\ op = "combine"
    /\ activity = EmptyDict
    /\ flags = NoFlags
    /\ batch \in SeqsUpTo(ActivityPool, MaxRecords)
    /\ streams \in StreamDicts
    /\ interval \in Intervals
    /\ fs = EmptyDict
    /\ hr = <<0, 0>>
    /\ paths = <<"", "">>
    /\ opened = {}
    /\ result = None
    /\ err = ""

CallCombineActivitiesToJsonl ==
    /\ pc = "call"
    /\ op = "combine"
    /\ LET r == CombineActivitiesToJsonl(batch, streams, interval)
       IN  /\ result' = r.objects
           /\ err' = r.err
    /\ pc' = "done"
    /\ UNCHANGED <<op, activity, streams, interval, flags, fs, batch, hr, paths, opened>>

NextCombine == CallCombineActivitiesToJsonl

SpecCombine == InitCombine /\ [][NextCombine]_vars

\* C18: combine_activities_to_jsonl returns one record per activity, in the
\* order of the activities, and the i-th record is the one
\* create_activity_jsonl_object builds from the i-th activity and the streams
\* stored under its id, whatever the other activities are.
C18_OneRecordPerActivityInOrder ==
    (pc = "done" /\ op = "combine" /\ err = "") =>
        /\ Len(result) = Len(batch)
        /\ \A i \in 1..Len(batch) :
              result[i] = CreateActivityJsonlObject(batch[i], StreamsOf(streams, batch[i]),
                                                    interval).rec

C18_Witness ==
    /\ pc = "done"
    /\ op = "combine"
    /\ err = ""
    /\ batch = <<IdActivity(JInt(1), NameRunning), IdActivity(JInt(1), NameRest)>>
    /\ streams # None
    /\ 1 \in DOMAIN streams[1]
    /\ streams[1][1] = StreamsWithCadence
    /\ Len(result) = 2
    /\ Val(result[1]["streams_compact"])["cadence_spm_csv"] = JStr(<<"1","6","0",",","1","6","8">>)
    /\ "cadence_spm" \in DOMAIN Val(result[2]["quantiles"])

----------------------------------------------------------------------------
(* _find_sampling_indices: one call on a rebased time series (streams) and   *)
(* an interval                                                                *)

MaxTime == 6         \* largest time value of the enumerated series

\* the series of the worked example: 0, 1, ..., 10
ScenarioTime == [i \in 1..11 |-> i - 1]

\* rebased series: the first value is 0, the others are offsets in any order
RebasedSeries ==
    {<<>>, ScenarioTime} \cup {<<0>> \o s : s \in SeqsUpTo(0..MaxTime, MaxLen)}

IndexIntervals == {1, 2, 5, MaxTime + 1}

InitIndices ==
    /\ pc = "call"
    /\ op = "indices"
    /\ activity = EmptyDict
    /\ flags = NoFlags
    /\ streams \in RebasedSeries
    /\ interval \in IndexIntervals
    /\ IdleFiles
    /\ result = None
    /\ err = ""

CallFindSamplingIndices ==
    /\ pc = "call"
    /\ op = "indices"
    /\ result' = FindSamplingIndices(streams, interval)
    /\ pc' = "done"
    /\ UNCHANGED <<op, activity, streams, interval, flags, err, fs, batch, hr, paths, opened>>

NextIndices == CallFindSamplingIndices

SpecIndices == InitIndices /\ [][NextIndices]_vars

RefTargets(time_data, step) == {t \in 0..time_data[Len(time_data)] : t % step = 0}

RefClosest(time_data, t) ==
    LET dist(i) == Abs(time_data[i] - t)
        best    == CHOOSE d \in {dist(i) : i \in 1..Len(time_data)} :
                      \A i \in 1..Len(time_data) : d <= dist(i)
        nearest == {i \in 1..Len(time_data) : dist(i) = best}
    IN  (CHOOSE i \in nearest : \A j \in nearest : i <= j) - 1

RefIndices(time_data, step) ==
    IF time_data = <<>> THEN <<>>
    ELSE LET targets  == RefTargets(time_data, step)
             hit      == {RefClosest(time_data, t) : t \in targets}
             first(x) == CHOOSE t \in targets :
                            /\ RefClosest(time_data, t) = x
                            /\ \A u \in targets : RefClosest(time_data, u) = x => t <= u
         IN  [k \in 1..Cardinality(hit) |->
                CHOOSE x \in hit : Cardinality({y \in hit : first(y) < first(x)}) = k - 1]

\* C20: _find_sampling_indices returns what the reference returns; nothing for
\* an empty series, and 0, 5, 10 for the series 0..10 at interval 5.
C20_FindSamplingIndicesEqualsReference ==
    (pc = "done" /\ op = "indices") =>
        /\ result = RefIndices(streams, interval)
        /\ streams = <<>> => result = <<>>
        /\ (streams = ScenarioTime /\ interval = 5) => result = <<0, 5, 10>>

C20_Witness ==
    /\ pc = "done"
    /\ op = "indices"
    /\ streams = <<0, 4, 6, 6>>
    /\ interval = 5
    /\ result = <<0, 1>>

----------------------------------------------------------------------------
(* The stream helpers called on their own: _filter_by_moving,                *)
(* _double_cadence_values, _calculate_pace_values. streams holds the         *)
(* argument, result the value returned (for _double_cadence_values the       *)
(* dictionary after the call).                                               *)

\* the dictionary of the streams that are present: opts maps a type to None or Some(data)
StreamSetOf(opts) == [t \in {k \in DOMAIN opts : opts[k] # None} |-> opts[t][1]]

\* stream dictionaries as _convert_streams_to_dict builds them (no empty stream),
\* with streams shorter and longer than the moving stream
FilterInputs ==
    {StreamSetOf([time |-> t, heartrate |-> h, moving |-> m]) :
        t \in {None, Some(Ramp(MaxLen, 0, 3))},
        h \in {None, Some(<<Some(140), None>>), Some(Ramp(MaxLen + 1, 140, 5))},
        m \in {None} \cup {Some(d) : d \in MovingData}}

InitFilter ==
    /\ op = "filter"
    /\ streams \in FilterInputs

\* sampled times in any order and as many sampled distances, some of them missing
PaceTimes == {0, 5, 8}
PaceDistances == {None, Some(0), Some(16), Some(50)}

PaceInputs ==
    UNION {{[sampled_time |-> t, sampled_distance |-> d] :
                t \in [1..n -> PaceTimes], d \in [1..n -> PaceDistances]} : n \in 1..MaxLen}

InitPace ==
    /\ op = "pace"
    /\ streams \in PaceInputs

\* the cadence of the worked example
ScenarioCadence == <<Some(80), Some(82), None, Some(84)>>

\* cadence streams with null and empty-string entries, next to other streams
CadenceData ==
    {ScenarioCadence} \cup (SeqsUpTo({None, JStr(<<>>), Some(80), Some(-3)}, MaxLen) \ {<<>>})

CadenceInputs ==
    {StreamSetOf([time |-> t, heartrate |-> h, cadence |-> c]) :
        t \in {None, Some(Ramp(MaxLen, 0, 3))},
        h \in {None, Some(<<Some(80), None>>)},
        c \in {None} \cup {Some(d) : d \in CadenceData}}

InitCadence ==
    /\ op = "cadence"
    /\ streams \in CadenceInputs

InitStreamOps ==
    /\ pc = "call"
    /\ activity = EmptyDict
    /\ interval = 0
    /\ flags = NoFlags
    /\ IdleFiles
    /\ result = None
    /\ err = ""
    /\ (InitFilter \/ InitPace \/ InitCadence)

CallFilterByMoving ==
    /\ pc = "call"
    /\ op = "filter"
    /\ result' = FilterByMoving(streams)
    /\ pc' = "done"
    /\ UNCHANGED <<op, activity, streams, interval, flags, err, fs, batch, hr, paths, opened>>

CallCalculatePaceValues ==
    /\ pc = "call"
    /\ op = "pace"
    /\ result' = CalculatePaceValues(streams.sampled_time, streams.sampled_distance)
    /\ pc' = "done"
    /\ UNCHANGED <<op, activity, streams, interval, flags, err, fs, batch, hr, paths, opened>>

CallDoubleCadenceValues ==
    /\ pc = "call"
    /\ op = "cadence"
    /\ result' = DoubleCadenceValues(streams)
    /\ pc' = "done"
    /\ UNCHANGED <<op, activity, streams, interval, flags, err, fs, batch, hr, paths, opened>>

NextStreamOps == CallFilterByMoving \/ CallCalculatePaceValues \/ CallDoubleCadenceValues

SpecStreamOps == InitStreamOps /\ [][NextStreamOps]_vars

\* C21: on a stream dictionary without a moving entry _filter_by_moving returns
\* the dictionary it was given: same keys, same data.
C21_FilterIsIdentityWithoutMoving ==
    (pc = "done" /\ op = "filter" /\ "moving" \notin DOMAIN streams)
        => /\ DOMAIN result = DOMAIN streams
           /\ \A t \in DOMAIN streams : result[t] = streams[t]

C21_Witness ==
    /\ pc = "done"
    /\ op = "filter"
    /\ DOMAIN streams = {"time", "heartrate"}
    /\ Len(streams["heartrate"]) = 2
    /\ result = streams

AllFalsy(moving_data) == \A i \in 1..Len(moving_data) : moving_data[i] \in {None, Some(FALSE)}

\* C22 as stated: a moving stream in which every value is falsy gives the empty
\* dictionary.
C22_AllFalsyMovingGivesEmpty ==
    (pc = "done" /\ op = "filter" /\ "moving" \in DOMAIN streams /\ AllFalsy(streams["moving"]))
        => result = EmptyDict

\* C22 amended: a moving stream in which every value is falsy and at least one
\* value is not null gives the empty dictionary; when every value is null the
\* dictionary is returned as it was given.
C22_AllFalsyMovingWithAValueGivesEmpty ==
    (pc = "done" /\ op = "filter" /\ "moving" \in DOMAIN streams /\ AllFalsy(streams["moving"]))
        => IF \E i \in 1..Len(streams["moving"]) : streams["moving"][i] = Some(FALSE)
           THEN result = EmptyDict
           ELSE result = streams

C22_Witness ==
    /\ pc = "done"
    /\ op = "filter"
    /\ DOMAIN streams = {"time", "heartrate", "moving"}
    /\ streams["moving"] = <<None, Some(FALSE)>>
    /\ result = EmptyDict

\* the pair of sampled positions (1-based) the entry at position i is computed from
EarlierOf(i) == IF i = 1 THEN 1 ELSE i - 1
LaterOf(i) == IF i = 1 THEN 2 ELSE i

TimeDelta(i) == streams.sampled_time[LaterOf(i)] - streams.sampled_time[EarlierOf(i)]
DistanceDelta(i) == streams.sampled_distance[LaterOf(i)][1] - streams.sampled_distance[EarlierOf(i)][1]

\* the entry at position i has both distances and positive deltas
HasPace(i) ==
    /\ Len(streams.sampled_time) > 1
    /\ streams.sampled_distance[EarlierOf(i)] # None
    /\ streams.sampled_distance[LaterOf(i)] # None
    /\ TimeDelta(i) > 0
    /\ DistanceDelta(i) > 0

\* C23: _calculate_pace_values returns one entry per sampled point; the first entry
\* comes from the deltas to the second point, every other entry from the deltas to
\* the point before, as round(dt / dd * 1000) in digits; dt = 5, dd = 50 gives "100".
C23_PaceFromNextThenPrevious ==
    (pc = "done" /\ op = "pace") =>
        /\ Len(result) = Len(streams.sampled_time)
        /\ \A i \in 1..Len(result) :
              HasPace(i) => result[i] = IntToStr(RoundHalfEven(TimeDelta(i) * 1000, DistanceDelta(i)))
        /\ (HasPace(1) /\ TimeDelta(1) = 5 /\ DistanceDelta(1) = 50) => result[1] = <<"1", "0", "0">>

C23_Witness ==
    /\ pc = "done"
    /\ op = "pace"
    /\ streams.sampled_time = <<0, 5, 8>>
    /\ streams.sampled_distance = <<Some(0), Some(50), Some(16)>>
    /\ result = <<<<"1", "0", "0">>, <<"1", "0", "0">>, <<>>>>

\* C24: a position without a pace (a single sampled point, a missing distance, a
\* distance or time delta that is not positive) has the empty entry, and the call
\* raises nothing.
C24_NoPaceGivesEmptyEntry ==
    (pc = "done" /\ op = "pace") =>
        /\ err = ""
        /\ \A i \in 1..Len(streams.sampled_time) : ~HasPace(i) => result[i] = <<>>

C24_Witness ==
    /\ pc = "done"
    /\ op = "pace"
    /\ streams.sampled_time = <<0, 5, 5>>
    /\ streams.sampled_distance = <<Some(50), Some(50), Some(16)>>
    /\ result = <<<<>>, <<>>, <<>>>>

\* C25: _double_cadence_values replaces the cadence stream by one of the same
\* length, numbers doubled, null and empty-string entries in place; the other
\* streams stay; 80, 82, null, 84 becomes 160, 164, null, 168.
C25_CadenceDoubledInPlace ==
    (pc = "done" /\ op = "cadence") =>
        /\ DOMAIN result = DOMAIN streams
        /\ \A t \in DOMAIN streams \ {"cadence"} : result[t] = streams[t]
        /\ "cadence" \in DOMAIN streams =>
              /\ Len(result["cadence"]) = Len(streams["cadence"])
              /\ \A i \in 1..Len(streams["cadence"]) :
                    LET v == streams["cadence"][i]
                    IN  IF v \in {None, JStr(<<>>)} THEN result["cadence"][i] = v
                        ELSE result["cadence"][i] = Some(v[1] + v[1])
              /\ streams["cadence"] = ScenarioCadence =>
                    result["cadence"] = <<Some(160), Some(164), None, Some(168)>>

C25_Witness ==
    /\ pc = "done"
    /\ op = "cadence"
    /\ DOMAIN streams = {"time", "heartrate", "cadence"}
    /\ streams["cadence"] = <<Some(80), JStr(<<>>), None>>
    /\ result["cadence"] = <<Some(160), JStr(<<>>), None>>
    /\ result["heartrate"] = <<Some(80), None>>

----------------------------------------------------------------------------
(* Streams of uneven length, checked under SpecPipeline *)

\* the stream dictionary _sample_streams_common resamples (after the moving filter)
ResampledStreams ==
    LET sd == ConvertStreamsToDict(streams[1])
    IN  IF flags[1] THEN FilterByMoving(sd) ELSE sd

\* the CSV field a stream type is written to
CsvKeyOf(type) ==
    CASE type = "distance" -> "pace_s_per_km_csv"
      [] type = "heartrate" -> "hr_bpm_csv"
      [] type = "altitude" -> "alt_m_csv"
      [] type = "velocity_smooth" -> "velocity_smooth_ms_csv"
      [] type = "cadence" -> "cadence_spm_csv"

\* C26: with streams shorter than the time stream _sample_streams_common raises
\* no index error (the one error left is the null time sample), and a sample
\* index past the end of a stream gives an empty entry at that position of the
\* stream's CSV field.
C26_ShortStreamsGiveEmptyEntries ==
    /\ (pc = "done" /\ op = "sample" /\ err # "")
          => \E i \in 1..Len(InputData("time")) : InputData("time")[i] = None
    /\ (Returned("sample") /\ DOMAIN result.compact # {})
          => LET indices == FindSamplingIndices(ResampledTime, interval)
             IN  \A type \in {"distance", "heartrate", "altitude", "velocity_smooth", "cadence"} :
                    (type \in DOMAIN ResampledStreams /\ CsvKeyOf(type) \in DOMAIN result.compact)
                        => \A k \in 1..Len(indices) :
                              indices[k] >= Len(ResampledStreams[type])
                                  => Split(result.compact[CsvKeyOf(type)], ",")[k] = <<>>

C26_Witness ==
    /\ Returned("sample")
    /\ flags = <<TRUE, TRUE, TRUE>>
    /\ Len(InputData("time")) = 3
    /\ Len(InputData("moving")) = 3
    /\ Len(InputData("distance")) = 1
    /\ {"alt_m_csv", "pace_s_per_km_csv"} \subseteq DOMAIN result.compact
    /\ result.compact["alt_m_csv"] = <<"1", "0", ",">>
    /\ result.compact["pace_s_per_km_csv"] = <<",">>

----------------------------------------------------------------------------
(* _find_sampling_indices step by step: the loop that builds the targets.    *)
(* While the loop runs, result holds the locals current_time and             *)
(* target_times; at the return it holds the list returned.                   *)

MaxTargets == 12     \* cap on the length of target_times

\* mutant: the step is lost in the addition
AdvanceTime_NoStep(current_time, interval_seconds) == current_time

\* current_time += interval_seconds
AdvanceTime(current_time, interval_seconds) == current_time + interval_seconds

EnterFindSamplingIndices ==
    /\ pc = "call"
    /\ op = "indices"
    /\ IF streams = <<>>
       THEN result' = <<>> /\ pc' = "done"
       ELSE result' = [current_time |-> 0, target_times |-> <<>>] /\ pc' = "while"
    /\ UNCHANGED <<op, activity, streams, interval, flags, err, fs, batch, hr, paths, opened>>

WhileStep ==
    /\ pc = "while"
    /\ result.current_time <= streams[Len(streams)]
    /\ Len(result.target_times) < MaxTargets
    /\ result' = [current_time |-> AdvanceTime(result.current_time, interval),
                  target_times |-> Append(result.target_times, result.current_time)]
    /\ UNCHANGED <<pc, op, activity, streams, interval, flags, err, fs, batch, hr, paths, opened>>

LeaveLoop ==
    /\ pc = "while"
    /\ ~(result.current_time <= streams[Len(streams)])
    /\ LET sampled_indices == [k \in 1..Len(result.target_times) |->
                                  ClosestIdx(streams, result.target_times[k])]
       IN  result' = RemoveDuplicates(sampled_indices, {})
    /\ pc' = "done"
    /\ UNCHANGED <<op, activity, streams, interval, flags, err, fs, batch, hr, paths, opened>>

NextIndicesLoop == EnterFindSamplingIndices \/ WhileStep \/ LeaveLoop

\* the call, once started, keeps running
SpecIndicesLoop == InitIndices /\ [][NextIndicesLoop]_vars /\ WF_vars(NextIndicesLoop)

\* C27: _find_sampling_indices terminates for every time series and every
\* positive interval, and returns the list of FindSamplingIndices.
C27_FindSamplingIndicesTerminates ==
    <>(pc = "done" /\ result = FindSamplingIndices(streams, interval))

C27_Witness ==
    /\ pc = "done"
    /\ op = "indices"
    /\ streams = ScenarioTime
    /\ interval = 1
    /\ Len(result) = 11

----------------------------------------------------------------------------
(* The sample indices of a non-decreasing series, checked under SpecIndices *)

NonDecreasing(s) == \A i \in 1..(Len(s) - 1) : s[i] <= s[i + 1]

\* C28: for a non-empty non-decreasing series that starts at 0 the list returned
\* by _find_sampling_indices starts with index 0, is strictly increasing and holds
\* only indices of the series, so the sampled times are non-decreasing.
C28_IndicesStartAtZeroAndIncrease ==
    (pc = "done" /\ op = "indices" /\ streams # <<>> /\ NonDecreasing(streams))
        => /\ result # <<>>
           /\ result[1] = 0
           /\ \A k \in 1..(Len(result) - 1) : result[k] < result[k + 1]
           /\ \A k \in 1..Len(result) : result[k] \in 0..(Len(streams) - 1)
           /\ \A k \in 1..(Len(result) - 1) : streams[result[k] + 1] <= streams[result[k + 1] + 1]

C28_Witness ==
    /\ pc = "done"
    /\ op = "indices"
    /\ streams = <<0, 2, 2, 6>>
    /\ interval = 2
    /\ result = <<0, 1, 3>>

----------------------------------------------------------------------------
(* Compact record and quantiles come together, checked under SpecPipeline *)

\* C29: _sample_streams_common returns two empty mappings, or a compact record
\* with sampling and time_s_csv and quantiles with time_s; a record built by
\* create_activity_jsonl_object has streams_compact exactly when it has quantiles.
C29_CompactAndQuantilesComeTogether ==
    /\ Returned("sample")
          => \/ DOMAIN result.compact = {} /\ DOMAIN result.quantiles = {}
             \/ /\ {"sampling", "time_s_csv"} \subseteq DOMAIN result.compact
                /\ "time_s" \in DOMAIN result.quantiles
    /\ Returned("create")
          => /\ "streams_compact" \in DOMAIN result <=> "quantiles" \in DOMAIN result
             /\ "streams_compact" \in DOMAIN result
                   => /\ {"sampling", "time_s_csv"} \subseteq DOMAIN RecObj("streams_compact")
                      /\ "time_s" \in DOMAIN RecObj("quantiles")

C29_Witness ==
    /\ Returned("create")
    /\ ActivityName \in RestNames
    /\ HasNumbers("altitude")
    /\ "streams_compact" \in DOMAIN result
    /\ DOMAIN RecObj("streams_compact") = {"sampling", "time_s_csv"}
    /\ DOMAIN RecObj("quantiles") = {"time_s"}

----------------------------------------------------------------------------
(* What a modification leaves alone, checked under SpecModify *)

HrScalarKeys == {"average_heartrate_bpm", "max_heartrate_bpm"}

\* a nested object of a record, empty when the key is absent
Nested(rec, key) == IF key \in DOMAIN Val(rec) THEN Val(Val(rec)[key]) ELSE EmptyDict

\* f and g have the same keys and values apart from the key named
SameExcept(f, g, key) ==
    /\ DOMAIN f \ {key} = DOMAIN g \ {key}
    /\ \A k \in DOMAIN f \ {key} : f[k] = g[k]

\* C30: a modification writes one record per record of the input, in the same
\* order, and changes nothing in a record but streams_compact.hr_bpm_csv,
\* quantiles.hr_bpm, average_heartrate_bpm and max_heartrate_bpm.
C30_OnlyHeartRateFieldsChange ==
    Modified =>
        LET written == Written
        IN  /\ Len(written) = Len(batch)
            /\ \A i \in 1..Len(batch) :
                  /\ DOMAIN Val(written[i]) \ {"quantiles"} = DOMAIN Val(batch[i]) \ {"quantiles"}
                  /\ "quantiles" \in DOMAIN Val(batch[i]) => "quantiles" \in DOMAIN Val(written[i])
                  /\ \A k \in DOMAIN Val(batch[i]) \ ({"streams_compact", "quantiles"} \cup HrScalarKeys) :
                        Val(written[i])[k] = Val(batch[i])[k]
                  /\ \A k \in DOMAIN Val(batch[i]) \cap HrScalarKeys :
                        ~Replaced(i) => Val(written[i])[k] = Val(batch[i])[k]
                  /\ SameExcept(Nested(written[i], "streams_compact"),
                                Nested(batch[i], "streams_compact"), "hr_bpm_csv")
                  /\ "hr_bpm_csv" \in DOMAIN Nested(written[i], "streams_compact")
                        <=> "hr_bpm_csv" \in DOMAIN Nested(batch[i], "streams_compact")
                  /\ SameExcept(Nested(written[i], "quantiles"),
                                Nested(batch[i], "quantiles"), "hr_bpm")

C30_Witness ==
    /\ Modified
    /\ batch = <<RecOneBeat, RecThreeBeats>>
    /\ fs["in.jsonl"] # FileText(batch)
    /\ HrCsv(Written[2]) = <<"2", "1", "0", ",", "2", "1", "1", ",", "2", "1", "1">>
    /\ Val(Written[1])["name"] = JStr(NameRest)
    /\ Val(Written[2])["name"] = JStr(NameRun)
    /\ Nested(Written[2], "streams_compact")["time_s_csv"] = JStr(<<"0", ",", "5", ",", "1", "0">>)
    /\ Nested(Written[2], "quantiles")["time_s"] = Nested(batch[2], "quantiles")["time_s"]
    /\ Nested(Written[2], "quantiles")["hr_bpm"] # Nested(batch[2], "quantiles")["hr_bpm"]

====
